---- MODULE Spec2Model ----
(***************************************************************************)
(* Event correlation and verification engine of mobiauto:                  *)
(*   EventStore     (src/src/mobiauto/network/events.py)                   *)
(*   EventVerifier  (src/src/mobiauto/network/event_verifier.py)           *)
(* The store is shared by ingestion threads (add_events), the test thread  *)
(* (check_has_event, check_has_event_async, await_all_event_checks) and    *)
(* the background threads started by check_has_event_async.                *)
(* Every `with self._lock:` block of the store is one atomic step that     *)
(* needs the store lock to be free; add_events holds the lock over its     *)
(* whole loop.                                                             *)
(***************************************************************************)
EXTENDS Integers, Sequences, FiniteSets, TLC

\* ------------------------------------------------------------ identities
Fg          == "fg"                   \* the test (foreground) thread
WorkerSlots == <<"w1", "w2", "w3">>   \* background threads alive at one time
Workers     == {WorkerSlots[k] : k \in 1..Len(WorkerSlots)}
Procs       == {Fg} \cup Workers
Adders   == {"a1", "a2"}           \* ingestion threads
Free     == "free"

\* ------------------------------------------------------------ JSON values
\* A Python str is a sequence of one-character strings.  A value json.loads
\* returns is a tagged record: str, int, bool, None, list, or dict (a
\* sequence of <<key, value>> pairs with distinct keys, in insertion order).
JStr(s)  == [t |-> "str",  v |-> s]
JNum(n)  == [t |-> "num",  v |-> n]
JBool(b) == [t |-> "bool", v |-> b]
JNull    == [t |-> "null", v |-> <<>>]
JArr(s)  == [t |-> "arr",  v |-> s]
JObj(s)  == [t |-> "obj",  v |-> s]

\* isinstance(x, str | int | float | bool) or x is None
IsPrimitive(x) == x.t \in {"str", "num", "bool", "null"}

Digits == <<"0", "1", "2", "3", "4", "5", "6", "7", "8", "9">>

IsDigit(c) == \E d \in 1..Len(Digits) : Digits[d] = c

DigitValue(c) == (CHOOSE d \in 1..Len(Digits) : Digits[d] = c) - 1

\* str(n) for a non-negative int.
RECURSIVE Decimal(_)
Decimal(n) ==
    IF n < Len(Digits) THEN <<Digits[n + 1]>>
    ELSE Append(Decimal(n \div Len(Digits)), Digits[(n % Len(Digits)) + 1])

IntStr(n) == IF n < 0 THEN <<"-">> \o Decimal(0 - n) ELSE Decimal(n)

\* str(x) for a primitive x.
PyStr(x) ==
    CASE x.t = "str"  -> x.v
      [] x.t = "num"  -> IntStr(x.v)
      [] x.t = "bool" -> IF x.v THEN <<"T", "r", "u", "e">>
                         ELSE <<"F", "a", "l", "s", "e">>
      [] x.t = "null" -> <<"N", "o", "n", "e">>

\* a == b for primitives: bool is an int in Python (True == 1).
AsInt(x) == IF x.t = "bool" THEN (IF x.v THEN 1 ELSE 0) ELSE x.v

PyEq(a, b) ==
    CASE a.t \in {"num", "bool"} /\ b.t \in {"num", "bool"} -> AsInt(a) = AsInt(b)
      [] a.t = "str" /\ b.t = "str"   -> a.v = b.v
      [] a.t = "null" /\ b.t = "null" -> TRUE
      [] OTHER -> FALSE

\* needle in haystack
Contains(haystack, needle) ==
    \E i \in 0..(Len(haystack) - Len(needle)) :
        SubSeq(haystack, i + 1, i + Len(needle)) = needle

\* k in d, d[k] and d[k] = v for a dict d.
HasKey(d, k) == \E i \in 1..Len(d.v) : d.v[i][1] = k

Get(d, k) == d.v[CHOOSE i \in 1..Len(d.v) : d.v[i][1] = k][2]

Put(pairs, k, v) ==
    IF \E i \in 1..Len(pairs) : pairs[i][1] = k
    THEN [i \in 1..Len(pairs) |-> IF pairs[i][1] = k THEN <<k, v>> ELSE pairs[i]]
    ELSE Append(pairs, <<k, v>>)

\* ------------------------------------------------ json.dumps / json.loads
\* The element of a one-element set.  Only({e(x) : x \in {v}}) is e with x
\* bound to the value of v, which is computed once.
Only(S) == CHOOSE x \in S : TRUE

Quote     == "\""
Backslash == "\\"

\* The body of a string literal for s: quote and backslash are escaped.
RECURSIVE Escaped(_)
Escaped(s) ==
    IF s = <<>> THEN <<>>
    ELSE IF Len(s) = 1
         THEN (IF s[1] \in {Quote, Backslash} THEN <<Backslash, s[1]>> ELSE s)
    ELSE Escaped(SubSeq(s, 1, Len(s) \div 2))
         \o Escaped(SubSeq(s, (Len(s) \div 2) + 1, Len(s)))

\* Serialisation with item separator "," \o sp and key separator ":" \o sp.
RECURSIVE Dump(_, _), DumpItems(_, _), DumpPairs(_, _)
Dump(x, sp) ==
    CASE x.t = "str"  -> <<Quote>> \o Escaped(x.v) \o <<Quote>>
      [] x.t = "num"  -> IntStr(x.v)
      [] x.t = "bool" -> IF x.v THEN <<"t", "r", "u", "e">>
                         ELSE <<"f", "a", "l", "s", "e">>
      [] x.t = "null" -> <<"n", "u", "l", "l">>
      [] x.t = "arr"  -> <<"[">> \o DumpItems(x.v, sp) \o <<"]">>
      [] x.t = "obj"  -> <<"{">> \o DumpPairs(x.v, sp) \o <<"}">>

DumpItems(s, sp) ==
    IF s = <<>> THEN <<>>
    ELSE Dump(Head(s), sp)
         \o (IF Tail(s) = <<>> THEN <<>> ELSE <<",">> \o sp \o DumpItems(Tail(s), sp))

DumpPairs(s, sp) ==
    IF s = <<>> THEN <<>>
    ELSE Dump(JStr(Head(s)[1]), sp) \o <<":">> \o sp \o Dump(Head(s)[2], sp)
         \o (IF Tail(s) = <<>> THEN <<>> ELSE <<",">> \o sp \o DumpPairs(Tail(s), sp))

\* json.dumps(x, ensure_ascii=False): separators ", " and ": ".
json_dumps(x) == Dump(x, <<" ">>)

\* The result of a parsing step: ok = FALSE is a raised ValueError; next is
\* the index after the parsed text.
ParseError == [ok |-> FALSE, val |-> JNull, next |-> 0]

Parsed(val, next) == [ok |-> TRUE, val |-> val, next |-> next]

RECURSIVE SkipWs(_, _)
SkipWs(s, i) == IF i <= Len(s) /\ s[i] = " " THEN SkipWs(s, i + 1) ELSE i

StartsWith(s, i, w) == i + Len(w) - 1 <= Len(s) /\ SubSeq(s, i, i + Len(w) - 1) = w

\* s[j] is a backslash that starts an escape sequence of the string literal
\* whose body starts at index i: it ends an odd run of backslashes.
StartsEscape(s, i, j) ==
    /\ s[j] = Backslash
    /\ LET run == CHOOSE n \in 1..(j - i + 1) :
                    /\ \A q \in (j - n + 1)..j : s[q] = Backslash
                    /\ (j - n < i \/ s[j - n] /= Backslash)
       IN  run % 2 = 1

\* The body of a string literal from index i (after the opening quote), up
\* to the first quote that is not escaped; the escapes are \" \\ and \/.
ParseString(s, i) ==
    LET Closing(j) == s[j] = Quote /\ (j = i \/ ~StartsEscape(s, i, j - 1))
        Valid(close) ==
            \A j \in i..(close - 1) :
                StartsEscape(s, i, j) => s[j + 1] \in {Quote, Backslash, "/"}
        Kept(close) ==
            SelectSeq([k \in 1..(close - i) |-> i + k - 1],
                      LAMBDA j : ~StartsEscape(s, i, j))
    IN  IF \E j \in i..Len(s) : Closing(j)
        THEN Only({IF Valid(close)
                   THEN Only({Parsed(JStr([k \in 1..Len(kept) |-> s[kept[k]]]),
                                     close + 1) : kept \in {Kept(close)}})
                   ELSE ParseError :
                   close \in {CHOOSE j \in i..Len(s) :
                                 Closing(j) /\ \A q \in i..(j - 1) : ~Closing(q)}})
        ELSE ParseError

RECURSIVE ParseDigits(_, _, _)
ParseDigits(s, i, n) ==
    IF i <= Len(s) /\ IsDigit(s[i])
    THEN ParseDigits(s, i + 1, n * Len(Digits) + DigitValue(s[i]))
    ELSE Parsed(JNum(n), i)

\* An int literal: -?(0|[1-9][0-9]*)
ParseNumber(s, i) ==
    LET neg == s[i] = "-"
        j   == IF neg THEN i + 1 ELSE i
        r   == IF s[j] = "0" THEN Parsed(JNum(0), j + 1) ELSE ParseDigits(s, j, 0)
    IN  IF j > Len(s) \/ ~IsDigit(s[j]) THEN ParseError
        ELSE IF neg THEN Parsed(JNum(0 - r.val.v), r.next) ELSE r

RECURSIVE ParseValue(_, _), ParseElements(_, _, _), ParseMembers(_, _, _)
ParseValue(s, i0) ==
    Only({IF i > Len(s) THEN ParseError
          ELSE IF s[i] = "{"
               THEN IF SkipWs(s, i + 1) <= Len(s) /\ s[SkipWs(s, i + 1)] = "}"
                    THEN Parsed(JObj(<<>>), SkipWs(s, i + 1) + 1)
                    ELSE ParseMembers(s, i + 1, <<>>)
          ELSE IF s[i] = "["
               THEN IF SkipWs(s, i + 1) <= Len(s) /\ s[SkipWs(s, i + 1)] = "]"
                    THEN Parsed(JArr(<<>>), SkipWs(s, i + 1) + 1)
                    ELSE ParseElements(s, i + 1, <<>>)
          ELSE IF s[i] = Quote THEN ParseString(s, i + 1)
          ELSE IF StartsWith(s, i, <<"t", "r", "u", "e">>)
               THEN Parsed(JBool(TRUE), i + 4)
          ELSE IF StartsWith(s, i, <<"f", "a", "l", "s", "e">>)
               THEN Parsed(JBool(FALSE), i + 5)
          ELSE IF StartsWith(s, i, <<"n", "u", "l", "l">>)
               THEN Parsed(JNull, i + 4)
          ELSE IF s[i] = "-" \/ IsDigit(s[i]) THEN ParseNumber(s, i)
          ELSE ParseError :
          i \in {SkipWs(s, i0)}})

\* The elements of an array from index i0, up to the closing bracket.
ParseElements(s, i0, acc) ==
    Only({LET j == SkipWs(s, r.next)
          IN  IF ~r.ok \/ j > Len(s) THEN ParseError
              ELSE IF s[j] = "]" THEN Parsed(JArr(Append(acc, r.val)), j + 1)
              ELSE IF s[j] = "," THEN ParseElements(s, j + 1, Append(acc, r.val))
              ELSE ParseError :
          r \in {ParseValue(s, i0)}})

\* The members of an object from index i0, up to the closing brace; a
\* repeated key keeps its place and takes the later value.
ParseMembers(s, i0, acc) ==
    Only({LET c == SkipWs(s, k.next)
          IN  IF ~k.ok \/ c > Len(s) \/ s[c] /= ":" THEN ParseError
              ELSE Only({LET j == SkipWs(s, r.next)
                         IN  IF ~r.ok \/ j > Len(s) THEN ParseError
                             ELSE IF s[j] = "}"
                                  THEN Parsed(JObj(Put(acc, k.val.v, r.val)), j + 1)
                             ELSE IF s[j] = ","
                                  THEN ParseMembers(s, j + 1, Put(acc, k.val.v, r.val))
                             ELSE ParseError :
                         r \in {ParseValue(s, c + 1)}}) :
          k \in {IF SkipWs(s, i0) <= Len(s) /\ s[SkipWs(s, i0)] = Quote
                 THEN ParseString(s, SkipWs(s, i0) + 1)
                 ELSE ParseError}})

\* json.loads(text): the whole text is one value; ok = FALSE is the exception.
json_loads(text) ==
    Only({Only({IF r.ok /\ SkipWs(s, r.next) = Len(s) + 1 THEN r ELSE ParseError :
                r \in {ParseValue(s, 1)}}) :
          s \in {text}})

\* ----------------------------------------------------------- JSON matching
RECURSIVE match_json_element(_, _)

\* Primitive against primitive: the string patterns "*", "" and "~needle",
\* the stringified exact match, and direct equality for a non-string pattern.
MatchPrimitiveNoWildcard(event_element, search_element) ==
    IF search_element.t = "str"
    THEN IF search_element.v = <<>>
         THEN event_element.t = "str" /\ event_element.v = <<>>
         ELSE IF Head(search_element.v) = "~"
              THEN /\ event_element.t = "str"
                   /\ Contains(event_element.v, Tail(search_element.v))
         ELSE PyStr(event_element) = search_element.v
    ELSE PyEq(event_element, search_element)

MatchPrimitiveSubstringOfStr(event_element, search_element) ==
    IF search_element.t = "str"
    THEN IF search_element.v = <<"*">> THEN TRUE
         ELSE IF search_element.v = <<>>
              THEN event_element.t = "str" /\ event_element.v = <<>>
         ELSE IF Head(search_element.v) = "~"
              THEN Contains(PyStr(event_element), Tail(search_element.v))
         ELSE PyStr(event_element) = search_element.v
    ELSE PyEq(event_element, search_element)

MatchPrimitive(event_element, search_element) ==
    IF search_element.t = "str"
    THEN IF search_element.v = <<"*">> THEN TRUE
         ELSE IF search_element.v = <<>>
              THEN event_element.t = "str" /\ event_element.v = <<>>
         ELSE IF Head(search_element.v) = "~"
              THEN /\ event_element.t = "str"
                   /\ Contains(event_element.v, Tail(search_element.v))
         ELSE PyStr(event_element) = search_element.v
    ELSE PyEq(event_element, search_element)

\* A string against an object or array: parse it and recurse; a string that
\* json.loads rejects does not match.
MatchEncodedNever(event_element, search_element) == FALSE

MatchEncoded(event_element, search_element) ==
    \E parsed \in {json_loads(event_element.v)} :
        parsed.ok /\ match_json_element(parsed.val, search_element)

\* Object against object: every key of the pattern is present and matches.
MatchObjectExact(event_element, search_element) ==
    /\ Len(event_element.v) = Len(search_element.v)
    /\ \A i \in 1..Len(search_element.v) :
          /\ HasKey(event_element, search_element.v[i][1])
          /\ \E ev \in {Get(event_element, search_element.v[i][1])} :
                match_json_element(ev, search_element.v[i][2])

MatchObject(event_element, search_element) ==
    \A i \in 1..Len(search_element.v) :
        /\ HasKey(event_element, search_element.v[i][1])
        /\ \E ev \in {Get(event_element, search_element.v[i][1])} :
              match_json_element(ev, search_element.v[i][2])

\* Array against array: every element of the pattern matches some element.
MatchArrayPositional(event_element, search_element) ==
    /\ Len(search_element.v) <= Len(event_element.v)
    /\ \A i \in 1..Len(search_element.v) :
          match_json_element(event_element.v[i], search_element.v[i])

MatchArray(event_element, search_element) ==
    \A i \in 1..Len(search_element.v) :
        \E j \in 1..Len(event_element.v) :
            match_json_element(event_element.v[j], search_element.v[i])

match_json_element(event_element, search_element) ==
    IF IsPrimitive(event_element)
    THEN IF IsPrimitive(search_element)
         THEN MatchPrimitive(event_element, search_element)
         ELSE IF event_element.t = "str"
              THEN MatchEncoded(event_element, search_element)
              ELSE FALSE
    ELSE IF event_element.t = "obj" /\ search_element.t = "obj"
         THEN MatchObject(event_element, search_element)
    ELSE IF event_element.t = "arr" /\ search_element.t = "arr"
         THEN MatchArray(event_element, search_element)
    ELSE FALSE

RECURSIVE find_key_value_in_tree(_, _, _)
find_key_value_in_tree(element, key, search_value) ==
    IF element.t = "obj"
    THEN \E i \in 1..Len(element.v) :
            \/ /\ element.v[i][1] = key
               /\ match_json_element(element.v[i][2], search_value)
            \/ find_key_value_in_tree(element.v[i][2], key, search_value)
    ELSE IF element.t = "arr"
    THEN \E i \in 1..Len(element.v) :
            find_key_value_in_tree(element.v[i], key, search_value)
    ELSE FALSE

\* data_el of contains_json_data: body["event"]["data"], else body["data"],
\* else None.
DataNode(body_obj) ==
    IF body_obj.t /= "obj" THEN JNull
    ELSE IF /\ HasKey(body_obj, <<"e", "v", "e", "n", "t">>)
            /\ Get(body_obj, <<"e", "v", "e", "n", "t">>).t = "obj"
            /\ HasKey(Get(body_obj, <<"e", "v", "e", "n", "t">>), <<"d", "a", "t", "a">>)
         THEN Get(Get(body_obj, <<"e", "v", "e", "n", "t">>), <<"d", "a", "t", "a">>)
    ELSE IF HasKey(body_obj, <<"d", "a", "t", "a">>)
         THEN Get(body_obj, <<"d", "a", "t", "a">>)
    ELSE JNull

\* The pairs of the pattern: search_obj.items() for a dict, else none.
SearchItems(search_obj) == IF search_obj.t = "obj" THEN search_obj.v ELSE <<>>

\* contains_json_data over the JSON text of an EventData and of the pattern;
\* every exception of the parsing block gives False.
contains_json_data_data_node_only(event_json, search_json) ==
    \E ev_obj \in {json_loads(event_json)} :
        /\ ev_obj.ok
        /\ ev_obj.val.t = "obj"
        /\ HasKey(ev_obj.val, <<"b", "o", "d", "y">>)
        /\ Get(ev_obj.val, <<"b", "o", "d", "y">>).t = "str"
        /\ \E body_obj \in {json_loads(Get(ev_obj.val, <<"b", "o", "d", "y">>).v)},
              search_obj \in {json_loads(search_json)} :
              /\ body_obj.ok
              /\ search_obj.ok
              /\ \E data_el \in {DataNode(body_obj.val)},
                    items \in {SearchItems(search_obj.val)} :
                    \A i \in 1..Len(items) :
                        IF data_el.t /= "null"
                        THEN find_key_value_in_tree(data_el, items[i][1], items[i][2])
                        ELSE find_key_value_in_tree(body_obj.val, items[i][1], items[i][2])

contains_json_data_bad_pattern_is_empty(event_json, search_json) ==
    \E ev_obj \in {json_loads(event_json)} :
        /\ ev_obj.ok
        /\ ev_obj.val.t = "obj"
        /\ HasKey(ev_obj.val, <<"b", "o", "d", "y">>)
        /\ Get(ev_obj.val, <<"b", "o", "d", "y">>).t = "str"
        /\ \E body_obj \in {json_loads(Get(ev_obj.val, <<"b", "o", "d", "y">>).v)},
              search_obj \in {json_loads(search_json)} :
              /\ body_obj.ok
              /\ \E data_el \in {DataNode(body_obj.val)},
                    items \in {IF search_obj.ok THEN SearchItems(search_obj.val) ELSE <<>>} :
                    \A i \in 1..Len(items) :
                        \/ /\ data_el.t /= "null"
                           /\ find_key_value_in_tree(data_el, items[i][1], items[i][2])
                        \/ find_key_value_in_tree(body_obj.val, items[i][1], items[i][2])

contains_json_data(event_json, search_json) ==
    \E ev_obj \in {json_loads(event_json)} :
        /\ ev_obj.ok
        /\ ev_obj.val.t = "obj"
        /\ HasKey(ev_obj.val, <<"b", "o", "d", "y">>)
        /\ Get(ev_obj.val, <<"b", "o", "d", "y">>).t = "str"
        /\ \E body_obj \in {json_loads(Get(ev_obj.val, <<"b", "o", "d", "y">>).v)},
              search_obj \in {json_loads(search_json)} :
              /\ body_obj.ok
              /\ search_obj.ok
              /\ \E data_el \in {DataNode(body_obj.val)},
                    items \in {SearchItems(search_obj.val)} :
                    \A i \in 1..Len(items) :
                        \/ /\ data_el.t /= "null"
                           /\ find_key_value_in_tree(data_el, items[i][1], items[i][2])
                        \/ find_key_value_in_tree(body_obj.val, items[i][1], items[i][2])

\* ------------------------- the item search of page_element_matched_event
KeyItems  == <<"i", "t", "e", "m", "s">>
KeyEvents == <<"e", "v", "e", "n", "t", "s">>
KeyName   == <<"n", "a", "m", "e">>
KeyData   == <<"d", "a", "t", "a">>
KeyEvent  == <<"e", "v", "e", "n", "t">>
KeyId     == <<"i", "d">>

\* d.get(k)
GetOrNone(d, k) == IF HasKey(d, k) THEN Get(d, k) ELSE JNull

\* The dict elements of node["items"], for a dict node whose items is a list.
DictItems(node) ==
    IF node.t = "obj" /\ GetOrNone(node, KeyItems).t = "arr"
    THEN SelectSeq(Get(node, KeyItems).v, LAMBDA it : it.t = "obj")
    ELSE <<>>

RECURSIVE BatchedItems(_)
BatchedItems(evs) ==
    IF evs = <<>> THEN <<>>
    ELSE (IF Head(evs).t = "obj"
          THEN DictItems(GetOrNone(Head(evs), <<"d", "a", "t", "a">>))
          ELSE <<>>) \o BatchedItems(Tail(evs))

\* _iter_candidate_items(root): event.data.items or data.items, then
\* events[*].data.items; a list is searched element by element.
RECURSIVE iter_candidate_items(_), IterCandidateItemsOfAll(_)
iter_candidate_items(root) ==
    IF root.t = "obj"
    THEN DictItems(DataNode(root))
         \o (IF GetOrNone(root, KeyEvents).t = "arr"
             THEN BatchedItems(Get(root, KeyEvents).v) ELSE <<>>)
    ELSE IF root.t = "arr" THEN IterCandidateItemsOfAll(root.v)
    ELSE <<>>

IterCandidateItemsOfAll(s) ==
    IF s = <<>> THEN <<>>
    ELSE iter_candidate_items(Head(s)) \o IterCandidateItemsOfAll(Tail(s))

\* Every pair of the pattern is found in item it.
ItemHasAll(it, search_obj) ==
    \A i \in 1..Len(search_obj.v) :
        find_key_value_in_tree(it, search_obj.v[i][1], search_obj.v[i][2])

\* The item search on the chosen event gives a PageElement: the body parses,
\* the first candidate item with every pair of the pattern exists and has a
\* name.  Otherwise the search raises inside the try block.
ItemResolved(body, search_obj) ==
    /\ \E body_obj \in {json_loads(body)} :
          /\ body_obj.ok
          /\ \E items \in {iter_candidate_items(body_obj.val)} :
                /\ \E i \in 1..Len(items) : ItemHasAll(items[i], search_obj)
                /\ HasKey(items[CHOOSE i \in 1..Len(items) :
                                   /\ ItemHasAll(items[i], search_obj)
                                   /\ \A j \in 1..(i - 1) :
                                         ~ItemHasAll(items[j], search_obj)],
                          KeyName)

\* --------------------------------------------------------------- payloads
Sku   == <<"s", "k", "u">>
Obj42 == JObj(<< <<Sku, JStr(<<"4", "2">>)>> >>)
Obj99 == JObj(<< <<Sku, JStr(<<"9", "9">>)>> >>)

\* EventData | None: has_data = FALSE is data=None; body is the request body,
\* a str.  RawBody is a body that json.loads rejects.
NoData     == [has_data |-> FALSE, body |-> <<>>]
RawBody    == [has_data |-> TRUE,  body |-> <<"o", "k">>]
Body(o)    == [has_data |-> TRUE,  body |-> json_dumps(o)]

\* Bodies with data.items: one item {"sku": "42"}, without and with a name.
Item42      == JObj(<< <<Sku, JStr(<<"4", "2">>)>> >>)
Item42Named == JObj(<< <<Sku, JStr(<<"4", "2">>)>>, <<KeyName, JStr(<<"n">>)>> >>)
ItemsBody(items) ==
    Body(JObj(<< <<<<"d", "a", "t", "a">>, JObj(<< <<KeyItems, JArr(items)>> >>)>> >>))

\* ev.data.model_dump_json(by_alias=True): the compact JSON text of the
\* EventData, fields in declaration order, remote_address under its alias.
\* The events of the scenarios differ in the body only.
model_dump_json(data) ==
    Dump(JObj(<< <<<<"u", "r", "i">>, JStr(<<"/">>)>>,
                 <<<<"r", "e", "m", "o", "t", "e", "A", "d", "d", "r", "e", "s", "s">>,
                   JStr(<<"h">>)>>,
                 <<<<"h", "e", "a", "d", "e", "r", "s">>, JObj(<<>>)>>,
                 <<<<"q", "u", "e", "r", "y">>, JNull>>,
                 <<<<"b", "o", "d", "y">>, JStr(data.body)>> >>), <<>>)

\* Event: event_num, name and data (event_time is left out).
NamedEvent(n, name, d) == [event_num |-> n, name |-> name, data |-> d]
Event(n, d) == NamedEvent(n, <<>>, d)
NoEvent     == Event(0, NoData)

\* event_data argument of check_has_event: None, a dict, a dict that
\* json.dumps cannot serialise, or a str.
Absent        == [kind |-> "absent", obj |-> JNull]
Dict(o)       == [kind |-> "dict", obj |-> o]
Unserializable == [kind |-> "unserializable", obj |-> JNull]
Text(t)       == [kind |-> "text", obj |-> JStr(t)]

\* expected_json_str = json.dumps(event_data, ensure_ascii=False) for a
\* dict, and event_data itself for a str.
expected_json_str(event_data) ==
    IF event_data.kind = "text" THEN event_data.obj.v
    ELSE json_dumps(event_data.obj)

\* json.loads(expected_json_str) gives a dict.
IsJsonObjectUnchecked(event_data) == TRUE

IsJsonObject(event_data) ==
    \/ event_data.kind = "dict"
    \/ /\ event_data.kind = "text"
       /\ \E parsed \in {json_loads(event_data.obj.v)} :
             parsed.ok /\ parsed.val.t = "obj"

\* search_obj = json.loads(expected_json_str)
SearchObj(event_data) ==
    IF event_data.kind = "text" THEN json_loads(event_data.obj.v).val
    ELSE event_data.obj

\* event_data_json and contains_json_data(event_data_json, expected_json_str)
DataMatches(data, event_data) ==
    /\ data.has_data
    /\ contains_json_data(model_dump_json(data), expected_json_str(event_data))

\* The chosen event gives a PageElement for the pattern.
DataResolves(data, event_data) ==
    /\ data.has_data
    /\ IsJsonObject(event_data)
    /\ ItemResolved(data.body, SearchObj(event_data))

\* The payloads and patterns of the scenarios below, with the pairs of them
\* for which DataMatches and DataResolves hold.
ScenarioDatas    ==
    {NoData, RawBody, Body(Obj42), Body(Obj99), ItemsBody(<<Item42>>),
     ItemsBody(<<Item42Named>>)}
ScenarioPatterns == {Dict(Obj42), Dict(Obj99), Text(json_dumps(Obj42))}
ScenarioMatches  ==
    UNION {IF DataMatches(d, p) THEN {<<d, p>>} ELSE {} :
              d \in ScenarioDatas, p \in ScenarioPatterns}
ScenarioResolves ==
    UNION {IF DataResolves(d, p) THEN {<<d, p>>} ELSE {} :
              d \in ScenarioDatas, p \in ScenarioPatterns}
Memo ==
    [datas |-> ScenarioDatas, patterns |-> ScenarioPatterns,
     matches |-> ScenarioMatches, resolves |-> ScenarioResolves]

\* ------------------------------------------------------------------ state
VARIABLES
    events,          \* EventStore._events
    matched_events,  \* EventStore._matched_events
    store_lock,      \* owner of EventStore._lock inside add_events, or Free
    adder,           \* per ingestion thread: position inside add_events
    frame,           \* per thread: the locals of its check_has_event call
    threads,         \* EventVerifier._threads
    thread_results,  \* EventVerifier._thread_results
    t_pc,            \* test thread: "idle" or "join" (inside await)
    join_i,          \* test thread: index of the thread being joined
    await_outcome,   \* how the last await_all_event_checks ended
    budget,          \* what the scenario may still do: calls of add_events,
                     \* check_has_event, check_has_event_async and
                     \* await_all_event_checks, and polling rounds
    prev,            \* history: the test thread's previous check_has_event
                     \* call (its pattern, consume, result and log_len)
    wins,            \* history: per event_num, the consume=True successes on it
    expired,         \* per thread: time.time() has reached the deadline of
                     \* its check_has_event call
    diag,            \* per thread: last_event_json of its check_has_event call
                     \* and the `actual` it attached on timeout
    pe,              \* the test thread's page_element_matched_event call
    accepted_nums,   \* history: the event_num of every event the store accepted
    m,               \* a call of one of the JSON matching functions
    memo,            \* the results of the matching functions on the payloads
                     \* and patterns of the scenarios, computed once
    ing,             \* the running or last JsonEventIngestor.ingest call
    sa,              \* a SoftAssert and the `with` block that uses it
    snaps,           \* history: the lists get_events() has returned
    srv,             \* per handler thread of the event server: its request
    am               \* the AppiumServerManager, its process and the server

vars == <<events, matched_events, store_lock, adder, frame, threads,
          thread_results, t_pc, join_i, await_outcome, budget, prev, wins,
          expired, diag, pe, accepted_nums, m, memo, ing, sa, snaps, srv,
          am>>

store_vars    == <<events, matched_events, store_lock, accepted_nums>>
adder_vars    == <<adder>>
verifier_vars == <<threads, thread_results>>
test_vars     == <<t_pc, join_i, await_outcome, prev>>
\* The ingestor, the soft assertions, the snapshots, the event server and
\* the Appium manager.
aux_vars      == <<ing, sa, snaps, srv, am>>
\* What the scenarios of the store, of the checks and of the await leave alone.
ext_vars      == <<expired, diag, pe, m, memo, aux_vars>>

\* The test of one scanned event in check_has_event: any event when the
\* pattern is absent, otherwise an event with data whose body contains it.
EventMatches(ev, event_data) ==
    IF event_data.kind = "absent" THEN TRUE
    ELSE IF ev.data \in memo.datas /\ event_data \in memo.patterns
         THEN <<ev.data, event_data>> \in memo.matches
    ELSE DataMatches(ev.data, event_data)

\* The item search of page_element_matched_event on the chosen event.
EventResolves(ev, event_data) ==
    IF ev.data \in memo.datas /\ event_data \in memo.patterns
    THEN <<ev.data, event_data>> \in memo.resolves
    ELSE DataResolves(ev.data, event_data)

\* log_len, polled and at_deadline are history: the length of the log at the
\* snapshot of the call, the numbers of the events its polling rounds have
\* returned, and the length of the log when its deadline passed.
IdleFrame ==
    [pc |-> "idle", event_data |-> Absent, soft |-> FALSE, consume |-> FALSE,
     existing_events |-> <<>>, new_events |-> <<>>, pos |-> 0,
     start_index |-> 0, result |-> "none", found |-> NoEvent,
     log_len |-> 0, polled |-> {}, at_deadline |-> 0]

\* accepted is history: the events the running add_events call has appended.
IdleAdder == [pc |-> "idle", new_events |-> <<>>, i |-> 0, exists |-> FALSE,
              accepted |-> <<>>]

\* failures is the index list of the raised error; awaited (the number of
\* results aggregated) and prev_state (how the await before ended) are history.
NoOutcome == [state |-> "none", failures |-> <<>>, awaited |-> 0,
              prev_state |-> "none"]

\* last_event_json is the local of the polling phase (None: has = FALSE);
\* actual is what the timeout branch attached; seen is history: the payload
\* of the last non-matching event with a payload that the call scanned.
NoJson == [has |-> FALSE, text |-> <<>>]

Json(text) == [has |-> TRUE, text |-> text]

NoDiag == [last_event_json |-> NoJson, actual |-> NoJson, seen |-> NoJson]

\* page_element_matched_event is not running.  rounds is history: the
\* number of check_has_event calls the running call has made, scrolls the
\* number of _do_scroll() calls, marked the event numbers it has passed to
\* mark_event_as_matched, log_len and matched_before the length of the log
\* and the consumed set when the call began;
\* result is "element" (a PageElement), "lookup_error", "value_error" or
\* "assert".
IdlePage ==
    [pc |-> "idle", event_data |-> Absent, scroll_count |-> 0,
     consume |-> FALSE, last |-> FALSE, max_attempts |-> 0, attempt |-> 0,
     rounds |-> 0, scrolls |-> 0, marked |-> {}, log_len |-> 0,
     matched_before |-> {}, matched_event |-> NoEvent, result |-> "none"]

\* No call of a matching function.
NoCall == [fn |-> "none", state |-> "idle", actual |-> JNull, key |-> <<>>,
           pattern |-> JNull, plain |-> JNull, encoding |-> "none",
           result |-> FALSE]

\* No ingest call yet.  returned: the call is over; stored: it called
\* store.add_events; unique is what it handed over and returns;
\* log_before is history, the log when the call began.
NoIngest ==
    [by |-> Free, payloads |-> <<>>, unique |-> <<>>, stored |-> FALSE,
     returned |-> FALSE, log_before |-> <<>>]

\* No SoftAssert yet.  failures is SoftAssert.failures; calls is history,
\* the checks made in call order; exit is how the `with` block ended:
\* "none", "returned", "combined" (the AssertionError of raise_if_any, with
\* its total and the messages it lists) or "propagated" (the exception of
\* the body).
NoSoftAssert ==
    [pc |-> "none", failures |-> <<>>, calls |-> <<>>, exit |-> "none",
     total |-> 0, listed |-> <<>>, exc |-> "none"]

\* A handler thread of the event server without a request.  status is the
\* response code sent (0: none); last_num and log_len are history, the
\* number of the last event and the length of the log when the handler
\* read them.
IdleHandler ==
    [pc |-> "idle", path |-> "", body |-> <<>>, next_num |-> 0, status |-> 0,
     last_num |-> 0, log_len |-> 0]

\* The manager after __init__ and its surroundings.  proc is _state.proc:
\* "none", "running" or "exited"; monitor is whether the monitor thread
\* runs; failures is the local of _monitor_loop; external is whether a
\* server not started by the manager answers at the URL; found and kept
\* are history: ensure_started_and_monitored found a healthy server, and
\* that server has answered every health check since; spawned counts the
\* calls of _start_process; error is whether ensure raised RuntimeError.
NoManager ==
    [proc |-> "none", started_by_us |-> FALSE, shutting_down |-> FALSE,
     monitor |-> FALSE, failures |-> 0, external |-> FALSE, found |-> FALSE,
     kept |-> FALSE, spawned |-> 0, error |-> FALSE, called |-> FALSE,
     stopped |-> FALSE]

AppiumMaxSpawns   == 2
AppiumMaxFailures == 4

Budget(adds, checks, asyncs, awaits, polls) ==
    [adds |-> adds, checks |-> checks, asyncs |-> asyncs, awaits |-> awaits,
     polls |-> polls]

InitCore ==
    /\ events = <<>>
    /\ matched_events = {}
    /\ store_lock = Free
    /\ adder = [a \in Adders |-> IdleAdder]
    /\ frame = [p \in Procs |-> IdleFrame]
    /\ threads = <<>>
    /\ thread_results = <<>>
    /\ t_pc = "idle"
    /\ join_i = 0
    /\ await_outcome = NoOutcome
    /\ prev = IdleFrame
    /\ wins = <<>>
    /\ expired = [p \in Procs |-> FALSE]
    /\ diag = [p \in Procs |-> NoDiag]
    /\ pe = IdlePage
    /\ accepted_nums = <<>>
    /\ memo = Memo
    /\ ing = NoIngest
    /\ sa = NoSoftAssert
    /\ snaps = <<>>
    /\ srv = [h \in Adders |-> IdleHandler]
    /\ am = NoManager

InitState == InitCore /\ m = NoCall


\* ------------------------------------------------------------- EventStore
\* `with self._lock:` can be entered when no add_events call holds the lock.
LockAvailableUnguarded == TRUE

LockAvailable == store_lock = Free

event_exists(event_number) ==
    \E k \in 1..Len(events) : events[k].event_num = event_number

is_event_already_matched_never(event_num) == FALSE

is_event_already_matched(event_num) == event_num \in matched_events

RECURSIVE Unmatched(_)
Unmatched(s) ==
    IF s = <<>> THEN <<>>
    ELSE IF Head(s).event_num \in matched_events
         THEN Unmatched(Tail(s))
         ELSE <<Head(s)>> \o Unmatched(Tail(s))

get_index_events(index) ==
    IF index < Len(events)
    THEN Unmatched(SubSeq(events, index + 1, Len(events)))
    ELSE <<>>

RECURSIVE Reversed(_)
Reversed(s) == IF s = <<>> THEN <<>> ELSE Append(Reversed(Tail(s)), Head(s))

get_events_newest_first == Reversed(events)

\* snapshot = list(self._events)
get_events == events

\* add_events, entry: take the lock and start the loop over new_events.
AddEventsEnter(a, new_events) ==
    /\ adder[a].pc = "idle"
    /\ budget.adds > 0
    /\ LockAvailable
    /\ store_lock' = a
    /\ adder' = [adder EXCEPT ![a] =
                    [pc |-> "loop", new_events |-> new_events, i |-> 1,
                     exists |-> FALSE, accepted |-> <<>>]]
    /\ budget' = [budget EXCEPT !.adds = @ - 1]
    /\ UNCHANGED <<events, matched_events, accepted_nums, frame, verifier_vars,
                   test_vars, wins>>

\* add_events, loop body part 1: evaluate _event_exists(event.event_num).
AddEventsExists(a) ==
    /\ adder[a].pc = "loop"
    /\ adder[a].i <= Len(adder[a].new_events)
    /\ adder' = [adder EXCEPT ![a].pc = "tested",
                              ![a].exists =
                                  event_exists(adder[a].new_events[adder[a].i].event_num)]
    /\ UNCHANGED <<store_vars, budget, frame, verifier_vars, test_vars, wins>>

\* add_events, loop body part 2: append unless the number exists.  The
\* number of an appended event is added to the history accepted_nums.
AddEventsAppend(a) ==
    /\ adder[a].pc = "tested"
    /\ events' = IF adder[a].exists
                 THEN events
                 ELSE Append(events, adder[a].new_events[adder[a].i])
    /\ adder' = [adder EXCEPT ![a].pc = "loop", ![a].i = @ + 1,
                              ![a].exists = FALSE,
                              ![a].accepted =
                                  IF adder[a].exists THEN @
                                  ELSE Append(@, adder[a].new_events[adder[a].i])]
    /\ accepted_nums' = IF adder[a].exists
                        THEN accepted_nums
                        ELSE Append(accepted_nums,
                                    adder[a].new_events[adder[a].i].event_num)
    /\ UNCHANGED <<matched_events, store_lock, budget, frame, verifier_vars,
                   test_vars, wins>>

\* add_events, exit: the loop is over, release the lock.
AddEventsExit(a) ==
    /\ adder[a].pc = "loop"
    /\ adder[a].i > Len(adder[a].new_events)
    /\ store_lock' = Free
    /\ adder' = [adder EXCEPT ![a] = IdleAdder]
    /\ UNCHANGED <<events, matched_events, accepted_nums, budget, frame,
                   verifier_vars, test_vars, wins>>


\* mark_event_as_matched(event_num), called on the store itself.
MarkEventAsMatched(event_num) ==
    /\ LockAvailable
    /\ matched_events' = matched_events \cup {event_num}
    /\ UNCHANGED <<events, store_lock, accepted_nums, adder_vars, budget, frame,
                   verifier_vars, test_vars, wins>>

\* clear(): self._events.clear(); self._matched_events.clear()
Clear ==
    /\ LockAvailable
    /\ events' = <<>>
    /\ matched_events' = {}
    /\ UNCHANGED <<store_lock, accepted_nums, adder_vars, budget, frame,
                   verifier_vars, test_vars, wins>>


\* A list handed out by the store: live when it is self._events itself, and
\* otherwise a list of its own with the items it was built from.
SnapshotAliased(log) == [live |-> TRUE, items |-> log]

\* snapshot = list(self._events)
Snapshot(log) == [live |-> FALSE, items |-> log]

\* What the holder of a list reads in it now.
Observed(list) == IF list.live THEN events ELSE list.items

\* get_events() called by a reader that keeps the list; seen is history,
\* the content of the list when it was returned.
GetEvents ==
    /\ LockAvailable
    /\ budget.checks > 0
    /\ budget' = [budget EXCEPT !.checks = @ - 1]
    /\ snaps' = Append(snaps, [list |-> Snapshot(get_events), seen |-> get_events])
    /\ UNCHANGED <<store_vars, adder_vars, frame, verifier_vars, test_vars, wins,
                   expired, diag, pe, m, memo, ing, sa, srv, am>>


\* ---------------------------------------------- EventVerifier.check_has_event
\* The frame a call leaves behind when it returns or raises: result is
\* "true", "false", "assert" (AssertionError) or "error" (another exception);
\* found is the event the call returned True on.
Returned(f, res, ev) ==
    [IdleFrame EXCEPT !.pc = "returned", !.event_data = f.event_data,
                      !.soft = f.soft, !.consume = f.consume,
                      !.result = res, !.found = ev, !.log_len = f.log_len]

\* Timeout branch: `if soft: return False` / `raise AssertionError(msg)`.
TimeoutResultAlwaysFalse(soft) == "false"

TimeoutResult(soft) == IF soft THEN "false" ELSE "assert"

NextStartIndexPastUnseen(start_index, new_events) ==
    start_index + Len(new_events) + 1

\* Cursor update after a polling round: start_index += len(new_events).
NextStartIndex(start_index, new_events) == start_index + Len(new_events)

\* The history loop is over without a match:
\* start_index = len(existing_events); deadline = time.time() + timeout_sec
AfterHistory(f) ==
    [f EXCEPT !.pc = "poll", !.start_index = Len(f.existing_events),
              !.existing_events = <<>>, !.pos = 0]

\* A polling round is over without a match:
\* start_index += len(new_events); time.sleep(polling_interval)
AfterRound(f) ==
    [f EXCEPT !.pc = "poll",
              !.start_index = NextStartIndex(f.start_index, f.new_events),
              !.new_events = <<>>, !.pos = 0]

\* Entry of check_has_event: json.dumps(event_data) raises for a dict it
\* cannot serialise; otherwise existing_events = self.store.get_events() and
\* the history loop starts (and is over at once on an empty snapshot).
Call(p, event_data, soft, consume) ==
    LET f == [IdleFrame EXCEPT !.event_data = event_data, !.soft = soft,
                               !.consume = consume, !.log_len = Len(events)]
    IN  /\ \/ event_data.kind /= "unserializable" /\ LockAvailable
           \/ event_data.kind = "unserializable"
        /\ frame' = [frame EXCEPT ![p] =
             IF event_data.kind = "unserializable"
             THEN Returned(f, "error", NoEvent)
             ELSE IF get_events = <<>>
                  THEN AfterHistory(f)
                  ELSE [f EXCEPT !.pc = "history",
                                 !.existing_events = get_events, !.pos = 1]]

\* The scan goes on with the next event of list s, or the loop is over.
NextEvent(f, s) ==
    IF f.pos < Len(s) THEN [f EXCEPT !.pos = @ + 1]
    ELSE IF f.pc = "history" THEN AfterHistory(f)
    ELSE AfterRound(f)

\* One iteration of `for ev in ...:` over list s (history or polling round):
\* skip a consumed event when consume is set, return True on a match (after
\* mark_event_as_matched when consume is set), otherwise go on.
ScanEvent(p, s, markPc) ==
    LET f  == frame[p]
        ev == s[f.pos]
    IN  /\ LockAvailable
        /\ frame' = [frame EXCEPT ![p] =
             IF is_event_already_matched(ev.event_num) /\ f.consume
             THEN NextEvent(f, s)
             ELSE IF EventMatches(ev, f.event_data)
                  THEN IF f.consume
                       THEN [f EXCEPT !.pc = markPc]
                       ELSE Returned(f, "true", ev)
                  ELSE NextEvent(f, s)]
        /\ UNCHANGED <<store_vars, adder_vars, verifier_vars, test_vars, budget, wins>>

\* The history of consume=True successes with one more on event number n.
Won(n) ==
    [x \in DOMAIN wins \cup {n} |->
        IF x = n THEN (IF n \in DOMAIN wins THEN wins[n] + 1 ELSE 1) ELSE wins[x]]

\* self.store.mark_event_as_matched(ev.event_num); return True
MarkAndReturn(p, s) ==
    LET f  == frame[p]
        ev == s[f.pos]
    IN  /\ LockAvailable
        /\ matched_events' = matched_events \cup {ev.event_num}
        /\ frame' = [frame EXCEPT ![p] = Returned(f, "true", ev)]
        /\ wins' = Won(ev.event_num)
        /\ UNCHANGED <<events, store_lock, accepted_nums, adder_vars,
                       verifier_vars, test_vars, budget>>

\* History scan, one event.
HistoryScan(p) ==
    /\ frame[p].pc = "history"
    /\ ScanEvent(p, frame[p].existing_events, "history_mark")

HistoryMark(p) ==
    /\ frame[p].pc = "history_mark"
    /\ MarkAndReturn(p, frame[p].existing_events)

\* new_events = self.store.get_index_events(start_index); the round is over
\* at once when nothing is returned.
Fetched(f0) ==
    LET got == get_index_events(f0.start_index)
        f   == [f0 EXCEPT !.new_events = got,
                          !.polled = @ \cup {got[i].event_num : i \in 1..Len(got)}]
    IN  IF f.new_events = <<>> THEN AfterRound(f)
        ELSE [f EXCEPT !.pc = "scan", !.pos = 1]

\* `while time.time() < deadline:` holds, one more round.
PollFetch(p) ==
    /\ frame[p].pc = "poll"
    /\ budget.polls > 0
    /\ LockAvailable
    /\ frame' = [frame EXCEPT ![p] = Fetched(frame[p])]
    /\ budget' = [budget EXCEPT !.polls = @ - 1]
    /\ UNCHANGED <<store_vars, adder_vars, verifier_vars, test_vars, wins>>

\* Polling round, one event.
PollScan(p) ==
    /\ frame[p].pc = "scan"
    /\ ScanEvent(p, frame[p].new_events, "scan_mark")

PollMark(p) ==
    /\ frame[p].pc = "scan_mark"
    /\ MarkAndReturn(p, frame[p].new_events)

\* `while time.time() < deadline:` fails: not found.
Timeout(p) ==
    /\ frame[p].pc = "poll"
    /\ frame' = [frame EXCEPT ![p] =
                    Returned(frame[p], TimeoutResult(frame[p].soft), NoEvent)]
    /\ UNCHANGED <<store_vars, adder_vars, verifier_vars, test_vars, budget, wins>>

\* ------------------------------------------------------------ test thread
TestThreadReady ==
    /\ t_pc = "idle"
    /\ frame[Fg].pc \in {"idle", "returned"}
    /\ pe.pc \in {"idle", "done"}

\* The test thread calls check_has_event(event_data, soft=..., consume=...).
CheckHasEvent(event_data, soft, consume) ==
    /\ TestThreadReady
    /\ budget.checks > 0
    /\ Call(Fg, event_data, soft, consume)
    /\ budget' = [budget EXCEPT !.checks = @ - 1]
    /\ prev' = [frame[Fg] EXCEPT !.soft = FALSE, !.found = NoEvent]
    /\ UNCHANGED <<store_vars, adder_vars, verifier_vars, t_pc, join_i,
                   await_outcome, wins>>


\* ---------------------------------- check_has_event with its diagnostics
\* event_data_json of the event under the cursor of list s, when the scan
\* neither skips the event nor matches it; None (NoJson) for data=None.
UnmatchedJson(p, s) ==
    LET f  == frame[p]
        ev == s[f.pos]
    IN  IF \/ is_event_already_matched(ev.event_num) /\ f.consume
           \/ EventMatches(ev, f.event_data)
           \/ ~ev.data.has_data
        THEN NoJson
        ELSE Json(model_dump_json(ev.data))

\* last_event_json = event_data_json or last_event_json
OrElse(event_data_json, last_event_json) ==
    IF event_data_json.has THEN event_data_json ELSE last_event_json

DiagCall(p, event_data, soft, consume) ==
    /\ CheckHasEvent(event_data, soft, consume)
    /\ diag' = [diag EXCEPT ![p] = NoDiag]
    /\ UNCHANGED <<expired, pe, m, memo,
                   aux_vars>>

\* The history loop has no last_event_json; seen records what it passed.
DiagHistoryScan(p) ==
    /\ HistoryScan(p)
    /\ diag' = [diag EXCEPT ![p].seen =
                    OrElse(UnmatchedJson(p, frame[p].existing_events), @)]
    /\ UNCHANGED <<expired, pe, m, memo,
                   aux_vars>>

DiagPollScan(p) ==
    /\ PollScan(p)
    /\ diag' = [diag EXCEPT
                    ![p].last_event_json =
                        OrElse(UnmatchedJson(p, frame[p].new_events), @),
                    ![p].seen =
                        OrElse(UnmatchedJson(p, frame[p].new_events), @)]
    /\ UNCHANGED <<expired, pe, m, memo,
                   aux_vars>>

\* self._attach_json_artifacts(expected=..., actual=last_event_json, ...);
\* msg, the text of the AssertionError, names event_data and timeout_sec.
DiagTimeout(p) ==
    /\ Timeout(p)
    /\ diag' = [diag EXCEPT ![p].actual = diag[p].last_event_json]
    /\ UNCHANGED <<expired, pe, m, memo,
                   aux_vars>>


\* ----------------------------------------- EventVerifier.check_has_event_async
RECURSIVE SeqToSet(_)
SeqToSet(s) == IF s = <<>> THEN {} ELSE {Head(s)} \cup SeqToSet(Tail(s))

\* A thread slot no live Thread object occupies.
FreeSlots == {w \in Workers : frame[w].pc = "idle"}

\* th = threading.Thread(target=_target); th.start(); self._threads.append(th)
\* The new thread has the call's arguments and soft=True.
CheckHasEventAsync(event_data, consume) ==
    /\ TestThreadReady
    /\ budget.asyncs > 0
    /\ FreeSlots /= {}
    /\ LET k == CHOOSE x \in 1..Len(WorkerSlots) :
                    /\ WorkerSlots[x] \in FreeSlots
                    /\ \A y \in 1..(x - 1) : WorkerSlots[y] \notin FreeSlots
           w == WorkerSlots[k]
       IN  /\ frame' = [frame EXCEPT ![w] =
                [IdleFrame EXCEPT !.pc = "started", !.event_data = event_data,
                                  !.soft = TRUE, !.consume = consume]]
           /\ threads' = Append(threads, w)
    /\ budget' = [budget EXCEPT !.asyncs = @ - 1]
    /\ UNCHANGED <<store_vars, adder_vars, thread_results, test_vars, wins>>

\* _target, first statement: ok = self.check_has_event(..., soft=True, ...)
TargetCall(w) ==
    /\ frame[w].pc = "started"
    /\ Call(w, frame[w].event_data, TRUE, frame[w].consume)
    /\ UNCHANGED <<store_vars, adder_vars, verifier_vars, test_vars, budget, wins>>

\* The boolean _target appends: ok when the check returned, False from the
\* `except Exception` branch.
TargetResultTruthy(res) == res /= "false"

TargetResult(res) == res = "true"

\* _target: `with self._lock: self._thread_results.append(...)`, thread ends.
TargetAppend(w) ==
    /\ frame[w].pc = "returned"
    /\ thread_results' = Append(thread_results, TargetResult(frame[w].result))
    /\ frame' = [frame EXCEPT ![w].pc = "finished"]
    /\ UNCHANGED <<store_vars, adder_vars, threads, test_vars, budget, wins>>

\* ---------------------------------------- EventVerifier.await_all_event_checks
AwaitCall ==
    /\ TestThreadReady
    /\ budget.awaits > 0
    /\ t_pc' = "join"
    /\ join_i' = 1
    /\ budget' = [budget EXCEPT !.awaits = @ - 1]
    /\ UNCHANGED <<store_vars, adder_vars, frame, verifier_vars, await_outcome,
                   prev, wins>>

\* t.join() returns once thread t has ended.
JoinableAnytime(w) == TRUE

Joinable(w) == frame[w].pc = "finished"

\* for t in self._threads: t.join()
AwaitJoin ==
    /\ t_pc = "join"
    /\ join_i <= Len(threads)
    /\ Joinable(threads[join_i])
    /\ join_i' = join_i + 1
    /\ UNCHANGED <<store_vars, adder_vars, frame, verifier_vars, t_pc,
                   await_outcome, prev, budget, wins>>

\* failures = [i for i, ok in enumerate(self._thread_results) if not ok]
RECURSIVE FailuresFrom(_, _)
FailuresFrom(results, i) ==
    IF i > Len(results) THEN <<>>
    ELSE IF results[i] THEN FailuresFrom(results, i + 1)
         ELSE <<i - 1>> \o FailuresFrom(results, i + 1)

FirstFailureOnly(results) ==
    IF FailuresFrom(results, 1) = <<>> THEN <<>>
    ELSE <<Head(FailuresFrom(results, 1))>>

Failures(results) == FailuresFrom(results, 1)

\* Results kept by the results list across `self._thread_results.clear()`.
ResultsKept(results) == results

ResultsAfterClear(results) == <<>>

\* self._threads.clear(); failures = ...; self._thread_results.clear();
\* raise AssertionError if failures.  The joined Thread objects are dropped.
AwaitFinish ==
    /\ t_pc = "join"
    /\ join_i > Len(threads)
    /\ threads' = <<>>
    /\ thread_results' = ResultsAfterClear(thread_results)
    /\ await_outcome' =
          [state    |-> IF Failures(thread_results) /= <<>> THEN "raised"
                        ELSE "returned",
           failures |-> Failures(thread_results),
           awaited  |-> Len(thread_results),
           prev_state |-> await_outcome.state]
    /\ frame' = [p \in Procs |->
                    IF p \in SeqToSet(threads) /\ frame[p].pc = "finished"
                    THEN IdleFrame ELSE frame[p]]
    /\ t_pc' = "idle"
    /\ join_i' = 0
    /\ UNCHANGED <<store_vars, adder_vars, prev, budget, wins>>



\* ------------------------------------------------- checks with a deadline
\* `while time.time() < deadline:` for the check of thread p, whose deadline
\* has passed when expired[p] holds.
PollingContinuesAlways(p) == TRUE

PollingContinues(p) == ~expired[p]

\* Time passes the deadline of a check that is polling; timeout_sec is finite.
Expire(p) ==
    /\ frame[p].pc \in {"poll", "scan", "scan_mark"}
    /\ ~expired[p]
    /\ expired' = [expired EXCEPT ![p] = TRUE]
    /\ frame' = [frame EXCEPT ![p].at_deadline = Len(events)]
    /\ UNCHANGED <<store_vars, adder_vars, verifier_vars, test_vars,
                   budget, wins, diag, pe, m, memo,
                   aux_vars>>

\* A check starts: deadline = time.time() + timeout_sec lies ahead.
TimedCheckHasEvent(event_data, soft, consume) ==
    /\ CheckHasEvent(event_data, soft, consume)
    /\ expired' = [expired EXCEPT ![Fg] = FALSE]
    /\ UNCHANGED <<diag, pe, m, memo,
                   aux_vars>>

TimedTargetCall(w) ==
    /\ TargetCall(w)
    /\ expired' = [expired EXCEPT ![w] = FALSE]
    /\ UNCHANGED <<diag, pe, m, memo,
                   aux_vars>>

\* One more polling round while the deadline lies ahead.
TimedPollFetch(p) ==
    /\ frame[p].pc = "poll"
    /\ PollingContinues(p)
    /\ LockAvailable
    /\ frame' = [frame EXCEPT ![p] = Fetched(frame[p])]
    /\ UNCHANGED <<store_vars, adder_vars, verifier_vars, test_vars, budget,
                   wins, ext_vars>>

\* The while condition fails once the deadline has passed.
TimedTimeout(p) ==
    /\ ~PollingContinues(p)
    /\ Timeout(p)
    /\ UNCHANGED ext_vars

\* ------------------------------ EventVerifier.page_element_matched_event
\* max_attempts = max(0, int(scroll_count)) + 1
MaxAttemptsUnclamped(scroll_count) == scroll_count + 1

MaxAttempts(scroll_count) == (IF scroll_count > 0 THEN scroll_count ELSE 0) + 1

\* A round has failed (nothing matched, or `except Exception`): _do_scroll()
\* and the next attempt while attempt < max_attempts - 1, else LookupError.
AfterFailedRound(p0) ==
    IF p0.attempt < p0.max_attempts - 1
    THEN [p0 EXCEPT !.pc = "round", !.attempt = @ + 1, !.scrolls = @ + 1]
    ELSE [p0 EXCEPT !.pc = "done", !.result = "lookup_error"]

\* matched_events: the stored events that contain the pattern.
MatchedEvents(event_data) ==
    SelectSeq(get_events, LAMBDA ev : ev.data.has_data /\ EventMatches(ev, event_data))

\* The test thread calls page_element_matched_event: a str pattern that
\* does not parse to a dict raises ValueError, otherwise the loop starts.
PageElementMatchedEvent(event_data, scroll_count, last, consume) ==
    /\ TestThreadReady
    /\ pe.pc = "idle"
    /\ pe' = LET p0 == [IdlePage EXCEPT !.event_data = event_data,
                                        !.scroll_count = scroll_count,
                                        !.last = last, !.consume = consume,
                                        !.log_len = Len(events),
                                        !.matched_before = matched_events]
             IN  IF IsJsonObject(event_data)
                 THEN [p0 EXCEPT !.pc = "round",
                                 !.max_attempts = MaxAttempts(scroll_count)]
                 ELSE [p0 EXCEPT !.pc = "done", !.result = "value_error"]
    /\ UNCHANGED <<store_vars, adder_vars, frame, verifier_vars, test_vars,
                   budget, wins, expired, diag, m, memo,
                   aux_vars>>

\* `while attempt < max_attempts:` and the call
\* check_has_event(expected_json_str, ..., soft=True, consume=False); the
\* statement after the loop raises AssertionError.
PageRound ==
    /\ pe.pc = "round"
    /\ IF pe.attempt < pe.max_attempts
       THEN /\ Call(Fg, pe.event_data, TRUE, FALSE)
            /\ expired' = [expired EXCEPT ![Fg] = FALSE]
            /\ pe' = [pe EXCEPT !.pc = "waiting", !.rounds = @ + 1]
       ELSE /\ pe' = [pe EXCEPT !.pc = "done", !.result = "assert"]
            /\ UNCHANGED <<frame, expired>>
    /\ UNCHANGED <<store_vars, adder_vars, verifier_vars, test_vars, budget,
                   wins, diag, m, memo,
                   aux_vars>>

\* The check has returned: not ok raises inside the try block; otherwise
\* the matching events are collected and the first or last one is chosen.
PageCollect ==
    /\ pe.pc = "waiting"
    /\ frame[Fg].pc = "returned"
    /\ IF frame[Fg].result /= "true"
       THEN pe' = AfterFailedRound(pe)
       ELSE /\ LockAvailable
            /\ pe' = IF MatchedEvents(pe.event_data) = <<>>
                     THEN AfterFailedRound(pe)
                     ELSE [pe EXCEPT !.pc = "chosen",
                              !.matched_event =
                                  IF pe.last
                                  THEN MatchedEvents(pe.event_data)[
                                           Len(MatchedEvents(pe.event_data))]
                                  ELSE MatchedEvents(pe.event_data)[1]]
    /\ UNCHANGED <<store_vars, adder_vars, frame, verifier_vars, test_vars,
                   budget, wins, expired, diag, m, memo,
                   aux_vars>>

\* The chosen event is consumed if required, then searched for the item.
PageResolve ==
    /\ pe.pc = "chosen"
    /\ LockAvailable
    /\ matched_events' =
          IF pe.consume /\ ~is_event_already_matched(pe.matched_event.event_num)
          THEN matched_events \cup {pe.matched_event.event_num}
          ELSE matched_events
    /\ pe' = LET p0 == IF pe.consume
                             /\ ~is_event_already_matched(pe.matched_event.event_num)
                        THEN [pe EXCEPT !.marked = @ \cup {pe.matched_event.event_num}]
                        ELSE pe
             IN  IF EventResolves(pe.matched_event, pe.event_data)
                 THEN [p0 EXCEPT !.pc = "done", !.result = "element"]
                 ELSE AfterFailedRound(p0)
    /\ UNCHANGED <<events, store_lock, accepted_nums, adder_vars, frame,
                   verifier_vars, test_vars, budget, wins, expired, diag, m, memo,
                   aux_vars>>


\* ----------------------------------------------- JsonEventIngestor.ingest
\* A payload of ingest: a str, or an object that is already decoded.
Raw(text)    == [is_str |-> TRUE,  text |-> text, val |-> JNull]
Decoded(val) == [is_str |-> FALSE, text |-> <<>>, val |-> val]

KeyEventNum == <<"e", "v", "e", "n", "t", "_", "n", "u", "m">>
KeyNum      == <<"n", "u", "m">>
KeyBody     == <<"b", "o", "d", "y">>
KeyMethod   == <<"m", "e", "t", "h", "o", "d">>

\* bool(x)
Truthy(x) ==
    CASE x.t = "null" -> FALSE
      [] x.t = "bool" -> x.v
      [] x.t = "num"  -> x.v /= 0
      [] OTHER        -> x.v /= <<>>

\* d.get(keys[1]) or d.get(keys[2]) or ... or default
RECURSIVE OrChain(_, _, _)
OrChain(d, keys, default) ==
    IF keys = <<>> THEN default
    ELSE IF Truthy(GetOrNone(d, Head(keys))) THEN GetOrNone(d, Head(keys))
    ELSE OrChain(d, Tail(keys), default)

RECURSIVE DigitsValue(_, _)
DigitsValue(s, acc) ==
    IF s = <<>> THEN acc
    ELSE DigitsValue(Tail(s), acc * Len(Digits) + DigitValue(Head(s)))

\* int(x): ok = FALSE is ValueError or TypeError.
PyInt(x) ==
    CASE x.t \in {"num", "bool"} -> [ok |-> TRUE, n |-> AsInt(x)]
      [] x.t = "str" /\ x.v /= <<>> /\ (\A i \in 1..Len(x.v) : IsDigit(x.v[i]))
                                  -> [ok |-> TRUE, n |-> DigitsValue(x.v, 0)]
      [] OTHER                    -> [ok |-> FALSE, n |-> 0]

\* name = str(item.get("name") or ""), for names that are primitives.
ItemName(item, keys) == PyStr(OrChain(item, keys, JStr(<<>>)))

\* item.get("data", {})
ItemData(item) == IF HasKey(item, KeyData) THEN Get(item, KeyData) ELSE JObj(<<>>)

\* body = json.dumps({"event": {"data": item.get("data", {})}})
EnvelopeBodyWithoutData(item) == Body(JObj(<< <<KeyEvent, JObj(<<>>)>> >>))

EnvelopeBody(item) == Body(JObj(<< <<KeyEvent, JObj(<< <<KeyData, ItemData(item)>> >>)>> >>))

\* The loop over data["events"]: a non-dict item is passed over, a dict item
\* appends an Event, and int(...) of a non-numeric event number raises out
\* of the loop with the events appended so far.
RECURSIVE EnvelopeEvents(_, _)
EnvelopeEvents(items, acc) ==
    IF items = <<>> THEN [raised |-> FALSE, events |-> acc]
    ELSE IF Head(items).t /= "obj" THEN EnvelopeEvents(Tail(items), acc)
    ELSE LET n == PyInt(OrChain(Head(items), <<KeyEventNum, KeyNum>>, JNum(0)))
         IN  IF ~n.ok THEN [raised |-> TRUE, events |-> acc]
             ELSE EnvelopeEvents(Tail(items),
                                 Append(acc, NamedEvent(n.n, ItemName(Head(items), <<KeyName>>),
                                                        EnvelopeBody(Head(items)))))

\* _parse_event_dict(d) for a dict d: data is an EventData when d["data"] is
\* a dict, whose body must validate as a str, and None otherwise.
\* The payloads of the scenarios carry no uri, remoteAddress, headers or
\* query.
ParseEventDict(d) ==
    LET n  == PyInt(OrChain(d, <<KeyEventNum, KeyNum, KeyId>>, JNum(0)))
        ed == GetOrNone(d, KeyData)
        body == IF ed.t = "obj"
                THEN OrChain(ed, <<KeyBody>>, JStr(<<"{", "}">>))
                ELSE JNull
    IN  IF ed.t = "obj" /\ body.t /= "str" THEN [raised |-> TRUE, events |-> <<>>]
        ELSE IF ~n.ok THEN [raised |-> TRUE, events |-> <<>>]
        ELSE [raised |-> FALSE,
              events |-> <<NamedEvent(n.n, ItemName(d, <<KeyName, KeyMethod>>),
                                      IF ed.t = "obj"
                                      THEN [has_data |-> TRUE, body |-> body.v]
                                      ELSE NoData)>>]

\* data = json.loads(raw) if isinstance(raw, str) else raw
Loaded(raw) ==
    IF raw.is_str
    THEN Only({[ok |-> r.ok, val |-> r.val] : r \in {json_loads(raw.text)}})
    ELSE [ok |-> TRUE, val |-> raw.val]

\* The body of the try block for one payload: the events it appends to
\* `events`, and whether it ends in the except branch.
PayloadEvents(raw) ==
    LET data == Loaded(raw)
    IN  IF ~data.ok THEN [raised |-> TRUE, events |-> <<>>]
        ELSE IF data.val.t = "obj" /\ GetOrNone(data.val, KeyEvents).t = "arr"
             THEN EnvelopeEvents(Get(data.val, KeyEvents).v, <<>>)
        ELSE IF data.val.t = "obj" THEN ParseEventDict(data.val)
        ELSE [raised |-> TRUE, events |-> <<>>]

\* events after the loop over payloads.
RECURSIVE Normalized(_)
Normalized(payloads) ==
    IF payloads = <<>> THEN <<>>
    ELSE PayloadEvents(Head(payloads)).events \o Normalized(Tail(payloads))

\* unique: the first event of each event_num, in order.
RECURSIVE Unique(_, _)
Unique(evs, seen) ==
    IF evs = <<>> THEN <<>>
    ELSE IF Head(evs).event_num \in seen THEN Unique(Tail(evs), seen)
    ELSE <<Head(evs)>> \o Unique(Tail(evs), seen \cup {Head(evs).event_num})

UniqueEventsKeepAll(evs) == evs

UniqueEvents(evs) == Unique(evs, {})

\* ingest(payloads) on ingestion thread a: the loop over the payloads, then
\* `if events:` the de-duplication and store.add_events(unique), whose
\* steps follow; with no events the call returns at once.
Ingest(a, payloads) ==
    /\ adder[a].pc = "idle"
    /\ budget.adds > 0
    /\ \E unique \in {UniqueEvents(Normalized(payloads))} :
          /\ ing' = [by |-> a, payloads |-> payloads, unique |-> unique,
                     stored |-> unique /= <<>>, returned |-> unique = <<>>,
                     log_before |-> events]
          /\ IF unique /= <<>>
             THEN AddEventsEnter(a, unique)
             ELSE /\ budget' = [budget EXCEPT !.adds = @ - 1]
                  /\ UNCHANGED <<store_vars, adder_vars, frame, verifier_vars,
                                 test_vars, wins>>
    /\ UNCHANGED <<expired, diag, pe, m, memo, sa, snaps, srv, am>>

\* store.add_events(unique) returns, and ingest returns unique.
IngestReturn(a) ==
    /\ ing.by = a
    /\ ~ing.returned
    /\ AddEventsExit(a)
    /\ ing' = [ing EXCEPT !.returned = TRUE]
    /\ UNCHANGED <<expired, diag, pe, m, memo, sa, snaps, srv, am>>

\* ------------------------------------------------------------- SoftAssert
\* What the SoftAssert actions leave alone.
not_sa_vars == <<store_vars, adder_vars, frame, verifier_vars, test_vars, budget,
                 wins, expired, diag, pe, m, memo, ing, snaps, srv, am>>

\* AssertionFailure(message): the kind of the message and the text put in.
Msg(kind, text) == [kind |-> kind, text |-> text]

\* A call of a checking method, with its arguments.
SoftCall(fn, a, b, flag, message) ==
    [fn |-> fn, a |-> a, b |-> b, flag |-> flag, message |-> message]

\* self.failures.append(AssertionFailure(message))
AppendedFirst(failures, message) == <<message>> \o failures

Appended(failures, message) == Append(failures, message)

\* The call is recorded in the history, and its failures are appended.
AfterCall(call, messages) ==
    [sa EXCEPT !.calls = Append(@, call),
               !.failures = IF messages = <<>> THEN @
                            ELSE Appended(@, messages[1])]

\* with SoftAssert() as sa:
SoftEnter ==
    /\ sa.pc = "none"
    /\ sa' = [NoSoftAssert EXCEPT !.pc = "open"]
    /\ UNCHANGED not_sa_vars

\* check(condition, message)
SoftCheck(condition, message) ==
    /\ sa.pc = "open"
    /\ budget.checks > Len(sa.calls)
    /\ sa' = AfterCall(SoftCall("check", JBool(condition), JNull, FALSE, message),
                       IF ~condition THEN <<message>> ELSE <<>>)
    /\ UNCHANGED not_sa_vars

\* key_path.split(sep) if key_path else [], with sep = "."
RECURSIVE SplitFrom(_, _, _)
SplitFrom(s, sep, cur) ==
    IF s = <<>> THEN <<cur>>
    ELSE IF Head(s) = sep THEN <<cur>> \o SplitFrom(Tail(s), sep, <<>>)
    ELSE SplitFrom(Tail(s), sep, Append(cur, Head(s)))

KeyPathParts(key_path) ==
    IF key_path = <<>> THEN <<>> ELSE SplitFrom(key_path, ".", <<>>)

\* The loop of assert_has_key: every part is a key of the dict reached.
RECURSIVE HasKeyPath(_, _)
HasKeyPath(cur, parts) ==
    IF parts = <<>> THEN TRUE
    ELSE IF cur.t /= "obj" \/ ~HasKey(cur, Head(parts)) THEN FALSE
    ELSE HasKeyPath(Get(cur, Head(parts)), Tail(parts))

\* assert_has_key(obj, key_path)
SoftAssertHasKey(obj, key_path) ==
    /\ sa.pc = "open"
    /\ budget.checks > Len(sa.calls)
    /\ sa' = AfterCall(SoftCall("has_key", obj, JStr(key_path), FALSE,
                                Msg("missing_key_path", key_path)),
                       IF HasKeyPath(obj, KeyPathParts(key_path)) THEN <<>>
                       ELSE <<Msg("missing_key_path", key_path)>>)
    /\ UNCHANGED not_sa_vars

\* assert_contains(actual_json, expected_json)
SoftAssertContains(actual_json, expected_json) ==
    /\ sa.pc = "open"
    /\ budget.checks > Len(sa.calls)
    /\ \E ok \in {contains_json_data(actual_json, expected_json)} :
          sa' = AfterCall(SoftCall("contains", JStr(actual_json), JStr(expected_json),
                                   FALSE, Msg("no_subset", <<>>)),
                          IF ok THEN <<>> ELSE <<Msg("no_subset", <<>>)>>)
    /\ UNCHANGED not_sa_vars

\* assert_equals(actual, expected, type_check=...) for primitives: the JSON
\* tags stand for the Python types.
SoftAssertEquals(actual, expected, type_check) ==
    /\ sa.pc = "open"
    /\ budget.checks > Len(sa.calls)
    /\ sa' = AfterCall(SoftCall("equals", actual, expected, type_check,
                                Msg("equals", <<>>)),
                       IF type_check /\ actual.t /= expected.t
                       THEN <<Msg("type_mismatch", <<>>)>>
                       ELSE IF ~PyEq(actual, expected)
                       THEN <<Msg("values_differ", <<>>)>>
                       ELSE <<>>)
    /\ UNCHANGED not_sa_vars

\* raise_if_any(): the combined AssertionError, if there are failures.
RaiseIfAny(failures) == failures /= <<>>

\* The `with` block ends, with exception exc of its body in flight or with
\* none ("none"): __exit__ returns False for an exception, which then
\* propagates; otherwise raise_if_any() and return True.
SoftExit(exc) ==
    /\ sa.pc = "open"
    /\ sa' = IF exc /= "none"
             THEN [sa EXCEPT !.pc = "closed", !.exc = exc, !.exit = "propagated"]
             ELSE IF RaiseIfAny(sa.failures)
             THEN [sa EXCEPT !.pc = "closed", !.exit = "combined",
                             !.total = Len(sa.failures), !.listed = sa.failures]
             ELSE [sa EXCEPT !.pc = "closed", !.exit = "returned"]
    /\ UNCHANGED not_sa_vars

\* ------------------------------------------- event server: _BatchHandler
\* ThreadingHTTPServer runs do_POST of each request on a thread of its own;
\* the handler threads are the ingestion threads of the store.  A request
\* is its path (urlsplit(self.path).path), its body and whether its
\* Content-Length header is an int.
Batch == <<"B", "A", "T", "C", "H">>

Request(path, body, length_ok) == [path |-> path, body |-> body, length_ok |-> length_ok]

Handling(h) == srv[h].pc \in {"last", "add", "adding"}

\* next_num = (last.event_num if last else 0) + 1
NextNum(log) == (IF log = <<>> THEN 0 ELSE log[Len(log)].event_num) + 1

\* do_POST, up to the body: 404 for another path; int(Content-Length) of a
\* header that is not an int raises, which the handler answers with 500.
DoPost(h, req) ==
    /\ srv[h].pc \in {"idle", "done"}
    /\ adder[h].pc = "idle"
    /\ budget.adds > Cardinality({g \in Adders : Handling(g)})
    /\ srv' = [srv EXCEPT ![h] =
                  IF req.path /= "/event"
                  THEN [IdleHandler EXCEPT !.pc = "done", !.path = req.path,
                                           !.body = req.body, !.status = 404]
                  ELSE IF ~req.length_ok
                  THEN [IdleHandler EXCEPT !.pc = "done", !.path = req.path,
                                           !.body = req.body, !.status = 500]
                  ELSE [IdleHandler EXCEPT !.pc = "last", !.path = req.path,
                                           !.body = req.body]]
    /\ UNCHANGED <<store_vars, adder_vars, frame, verifier_vars, test_vars, budget,
                   wins, expired, diag, pe, m, memo, ing, sa, snaps, am>>

\* last = store.get_last_event() and next_num.
PostLast(h) ==
    /\ srv[h].pc = "last"
    /\ LockAvailable
    /\ srv' = [srv EXCEPT ![h].pc = "add", ![h].next_num = NextNum(events),
                          ![h].last_num = NextNum(events) - 1,
                          ![h].log_len = Len(events)]
    /\ UNCHANGED <<store_vars, adder_vars, frame, verifier_vars, test_vars, budget,
                   wins, expired, diag, pe, m, memo, ing, sa, snaps, am>>

\* store.add_events([event]) with the BATCH event of the request.
PostAdd(h) ==
    /\ srv[h].pc = "add"
    /\ AddEventsEnter(h, <<NamedEvent(srv[h].next_num, Batch,
                                      [has_data |-> TRUE, body |-> srv[h].body])>>)
    /\ srv' = [srv EXCEPT ![h].pc = "adding"]
    /\ UNCHANGED <<expired, diag, pe, m, memo, ing, sa, snaps, am>>

\* add_events returns, and the handler sends 200.
PostReply(h) ==
    /\ srv[h].pc = "adding"
    /\ AddEventsExit(h)
    /\ srv' = [srv EXCEPT ![h].pc = "done", ![h].status = 200]
    /\ UNCHANGED <<expired, diag, pe, m, memo, ing, sa, snaps, am>>

\* ------------------------------------------- AppiumServerManager
\* am holds _State (proc, started_by_us, shutting_down, monitor_thread as
\* monitor), the failures counter of the monitor loop, and the world the
\* manager looks at: whether a server the manager did not start answers at
\* the URL (external) and where the manager's own process is ("none",
\* "starting", "serving", "exited").  found, kept, spawned and error are
\* history: an already healthy server was found by
\* ensure_started_and_monitored, it has answered ever since, the number of
\* _start_process calls, and whether the last _wait_until_healthy raised.
FAILURE_THRESHOLD == 3

not_am_vars == <<store_vars, adder_vars, frame, verifier_vars, test_vars, budget,
                 wins, expired, diag, pe, m, memo, ing, sa, snaps, srv>>

\* _is_healthy(url): some server answers 2xx at the URL.
IsHealthy(s) == s.external \/ s.proc = "serving"

\* alive = p is not None and p.poll() is None
Alive(s) == s.proc \in {"starting", "serving"}

\* _start_process: spawn appium, keep the process, started_by_us = True.
StartProcess(s) ==
    [s EXCEPT !.proc = "starting", !.started_by_us = TRUE, !.spawned = @ + 1]

\* _wait_until_healthy: returns as soon as the URL answers; the spawned
\* process comes up within the timeout (up) or it is killed and
\* RuntimeError is raised.
WaitUntilHealthy(s, up) ==
    IF IsHealthy(s) THEN [s EXCEPT !.error = FALSE]
    ELSE IF up /\ s.proc = "starting" THEN [s EXCEPT !.proc = "serving", !.error = FALSE]
    ELSE [s EXCEPT !.proc = IF s.started_by_us /\ s.proc /= "none" THEN "exited" ELSE @,
                   !.error = TRUE]

\* _start_monitoring: one monitor thread.
StartMonitoring(s) == [s EXCEPT !.monitor = TRUE]

EnsureStartedAndMonitored(up) ==
    /\ ~am.called
    /\ am.spawned < AppiumMaxSpawns
    /\ am' = IF IsHealthy(am)
             THEN StartMonitoring([am EXCEPT !.called = TRUE, !.started_by_us = FALSE,
                                             !.found = TRUE, !.kept = TRUE])
             ELSE LET waited == WaitUntilHealthy(StartProcess([am EXCEPT !.called = TRUE]), up)
                  IN  IF waited.error THEN waited ELSE StartMonitoring(waited)
    /\ UNCHANGED not_am_vars

\* One iteration of _monitor_loop.
MonitorIteration(up) ==
    /\ am.monitor /\ ~am.shutting_down
    /\ am.spawned < AppiumMaxSpawns
    /\ am.failures < AppiumMaxFailures
    /\ LET failures == IF ~Alive(am) \/ ~IsHealthy(am) THEN am.failures + 1 ELSE 0
       IN  am' = IF failures >= FAILURE_THRESHOLD
                 THEN LET stopped == [am EXCEPT !.proc = IF @ = "none" THEN @ ELSE "exited"]
                          waited  == WaitUntilHealthy(StartProcess(stopped), up)
                      IN  [waited EXCEPT !.failures = IF waited.error THEN failures ELSE 0]
                 ELSE [am EXCEPT !.failures = failures]
    /\ UNCHANGED not_am_vars

\* The loop sees shutting_down and the monitor thread ends.
MonitorExit ==
    /\ am.monitor /\ am.shutting_down
    /\ am' = [am EXCEPT !.monitor = FALSE]
    /\ UNCHANGED not_am_vars

\* shutdown(): the flag is up from its first statement to its last.
ShutdownBegin ==
    /\ am.called /\ ~am.shutting_down /\ ~am.stopped
    /\ am' = [am EXCEPT !.shutting_down = TRUE]
    /\ UNCHANGED not_am_vars

ShutdownEnd ==
    /\ am.shutting_down
    /\ am' = [am EXCEPT !.proc = IF am.started_by_us
                                 THEN "none" ELSE @,
                        !.started_by_us = FALSE, !.shutting_down = FALSE,
                        !.stopped = TRUE]
    /\ UNCHANGED not_am_vars

\* The world: the other server comes and goes, the spawned process comes
\* up or exits.
ExternalUp ==
    /\ ~am.external /\ am.proc /= "serving"
    /\ am' = [am EXCEPT !.external = TRUE]
    /\ UNCHANGED not_am_vars

ExternalDown ==
    /\ am.external
    /\ am' = [am EXCEPT !.external = FALSE, !.kept = FALSE]
    /\ UNCHANGED not_am_vars

ProcServes ==
    /\ am.proc = "starting" /\ ~am.external
    /\ am' = [am EXCEPT !.proc = "serving"]
    /\ UNCHANGED not_am_vars

ProcExits ==
    /\ Alive(am)
    /\ am' = [am EXCEPT !.proc = "exited"]
    /\ UNCHANGED not_am_vars

\* ------------------------------------------------------------------ inputs
RECURSIVE SeqsUpTo(_, _)
SeqsUpTo(S, n) ==
    IF n = 0 THEN {<<>>}
    ELSE SeqsUpTo(S, n - 1) \cup
         {Append(s, x) : s \in {t \in SeqsUpTo(S, n - 1) : Len(t) = n - 1}, x \in S}

EventsOf(maxNum, datas) == {Event(n, d) : n \in 1..maxNum, d \in datas}
BatchesOf(evs, maxLen)  == SeqsUpTo(evs, maxLen) \ {<<>>}

\* Lists of up to maxLen events numbered first, first + 1, ...
Numbered(first, datas, maxLen) ==
    UNION {{[k \in 1..n |-> Event(first + k - 1, ds[k])] : ds \in [1..n -> datas]} :
           n \in 1..maxLen}

\* --------------------------------------------- specification: the store alone
\* Two ingestion threads call add_events concurrently.
StoreMaxNum   == 2
StoreMaxBatch == 2
StoreMaxAdds  == 2
StoreBatches  == BatchesOf(EventsOf(StoreMaxNum, {RawBody, Body(Obj42)}), StoreMaxBatch)

InitStore == InitState /\ budget = Budget(StoreMaxAdds, 0, 0, 0, 0)

NextStore ==
    \/ \E a \in Adders, b \in StoreBatches : AddEventsEnter(a, b) /\ UNCHANGED ext_vars
    \/ \E a \in Adders : AddEventsExists(a) /\ UNCHANGED ext_vars
    \/ \E a \in Adders : AddEventsAppend(a) /\ UNCHANGED ext_vars
    \/ \E a \in Adders : AddEventsExit(a) /\ UNCHANGED ext_vars

SpecStore == InitStore /\ [][NextStore]_vars

\* ------------------------- specification: the store with marks and clear()
\* Two ingestion threads deliver single events while the owner of the store
\* marks events and clears the store.
ClearMaxNum  == 2
ClearMaxAdds == 3
ClearBatches == BatchesOf(EventsOf(ClearMaxNum, {Body(Obj42)}), 1)

InitClear == InitState /\ budget = Budget(ClearMaxAdds, 0, 0, 0, 0)

NextClear ==
    \/ \E a \in Adders, b \in ClearBatches : AddEventsEnter(a, b) /\ UNCHANGED ext_vars
    \/ \E a \in Adders : AddEventsExists(a) /\ UNCHANGED ext_vars
    \/ \E a \in Adders : AddEventsAppend(a) /\ UNCHANGED ext_vars
    \/ \E a \in Adders : AddEventsExit(a) /\ UNCHANGED ext_vars
    \/ \E n \in 1..ClearMaxNum : MarkEventAsMatched(n) /\ UNCHANGED ext_vars
    \/ Clear /\ UNCHANGED ext_vars

SpecClear == InitClear /\ [][NextClear]_vars

\* ------------------------------------- specification: sequential checks
\* One ingestion thread and the test thread, which makes foreground checks
\* one after the other.
SeqMaxBatch  == 2
SeqMaxAdds   == 1
SeqMaxChecks == 2
SeqMaxPolls  == 1
SeqBatches   == Numbered(1, {NoData, Body(Obj42)}, SeqMaxBatch)
SeqPatterns  == {Absent, Dict(Obj42)}

InitSeq == InitState /\ budget = Budget(SeqMaxAdds, SeqMaxChecks, 0, 0, SeqMaxPolls)

NextSeq ==
    \/ \E b \in SeqBatches : AddEventsEnter("a1", b) /\ UNCHANGED ext_vars
    \/ AddEventsExists("a1") /\ UNCHANGED ext_vars
    \/ AddEventsAppend("a1") /\ UNCHANGED ext_vars
    \/ AddEventsExit("a1") /\ UNCHANGED ext_vars
    \/ \E e \in SeqPatterns, soft \in BOOLEAN, consume \in BOOLEAN :
          CheckHasEvent(e, soft, consume) /\ UNCHANGED ext_vars
    \/ HistoryScan(Fg) /\ UNCHANGED ext_vars
    \/ HistoryMark(Fg) /\ UNCHANGED ext_vars
    \/ PollFetch(Fg) /\ UNCHANGED ext_vars
    \/ PollScan(Fg) /\ UNCHANGED ext_vars
    \/ PollMark(Fg) /\ UNCHANGED ext_vars
    \/ Timeout(Fg) /\ UNCHANGED ext_vars

SpecSeq == InitSeq /\ [][NextSeq]_vars

\* ------------------------- specification: a check and its diagnostics
\* One ingestion thread and one foreground check for {"sku": "42"}, with
\* the payload the check keeps for its timeout report.
DiagMaxBatch  == 2
DiagMaxAdds   == 2
DiagMaxPolls  == 2
DiagBatches   == Numbered(1, {NoData, Body(Obj42), Body(Obj99)}, DiagMaxBatch)
DiagPatterns  == {Dict(Obj42)}

InitDiag == InitState /\ budget = Budget(DiagMaxAdds, 1, 0, 0, DiagMaxPolls)

NextDiag ==
    \/ \E b \in DiagBatches : AddEventsEnter("a1", b) /\ UNCHANGED ext_vars
    \/ AddEventsExists("a1") /\ UNCHANGED ext_vars
    \/ AddEventsAppend("a1") /\ UNCHANGED ext_vars
    \/ AddEventsExit("a1") /\ UNCHANGED ext_vars
    \/ \E e \in DiagPatterns, soft \in BOOLEAN, consume \in BOOLEAN :
          DiagCall(Fg, e, soft, consume)
    \/ DiagHistoryScan(Fg)
    \/ HistoryMark(Fg) /\ UNCHANGED ext_vars
    \/ PollFetch(Fg) /\ UNCHANGED ext_vars
    \/ DiagPollScan(Fg)
    \/ PollMark(Fg) /\ UNCHANGED ext_vars
    \/ DiagTimeout(Fg)

SpecDiag == InitDiag /\ [][NextDiag]_vars

\* ------------------------------ specification: checks with deadlines
\* One ingestion thread, the test thread (foreground checks, one call of
\* page_element_matched_event, awaits) and background checks.  Polling
\* is not bounded by a budget: a check polls until its deadline has passed.
LiveMaxAdds   == 1
LiveMaxChecks == 1
LiveMaxAsync  == 1
LiveMaxAwaits == 1
LiveMaxScroll == 1
LiveBatches   ==
    {<<Event(1, d)>> : d \in {Body(Obj99), ItemsBody(<<Item42>>),
                              ItemsBody(<<Item42Named>>)}}

InitLive ==
    InitState /\ budget = Budget(LiveMaxAdds, LiveMaxChecks, LiveMaxAsync,
                                 LiveMaxAwaits, 0)

\* The steps of the ingestion thread, of a running check of thread p, and of
\* the test thread inside page_element_matched_event and inside the await.
AdderStep ==
    \/ AddEventsExists("a1") /\ UNCHANGED ext_vars
    \/ AddEventsAppend("a1") /\ UNCHANGED ext_vars
    \/ AddEventsExit("a1") /\ UNCHANGED ext_vars

CheckStep(p) ==
    \/ HistoryScan(p) /\ UNCHANGED ext_vars
    \/ TimedPollFetch(p)
    \/ PollScan(p) /\ UNCHANGED ext_vars
    \/ TimedTimeout(p)

WorkerStep(w) ==
    \/ TimedTargetCall(w)
    \/ CheckStep(w)
    \/ HistoryMark(w) /\ UNCHANGED ext_vars
    \/ PollMark(w) /\ UNCHANGED ext_vars
    \/ TargetAppend(w) /\ UNCHANGED ext_vars

PageStep ==
    \/ PageRound
    \/ PageCollect
    \/ PageResolve

AwaitStep ==
    \/ AwaitJoin /\ UNCHANGED ext_vars
    \/ AwaitFinish /\ UNCHANGED ext_vars

NextLive ==
    \/ \E b \in LiveBatches : AddEventsEnter("a1", b) /\ UNCHANGED ext_vars
    \/ AdderStep
    \/ \E soft \in BOOLEAN : TimedCheckHasEvent(Dict(Obj42), soft, FALSE)
    \/ CheckHasEventAsync(Dict(Obj42), TRUE) /\ UNCHANGED ext_vars
    \/ \E n \in 0..LiveMaxScroll :
          PageElementMatchedEvent(Dict(Obj42), n, FALSE, TRUE)
    \/ AwaitCall /\ UNCHANGED ext_vars
    \/ CheckStep(Fg)
    \/ \E w \in Workers : WorkerStep(w)
    \/ PageStep
    \/ AwaitStep
    \/ \E p \in Procs : Expire(p)

\* Every thread that can run is scheduled, and each finite timeout elapses.
Fairness ==
    /\ WF_vars(AdderStep)
    /\ WF_vars(CheckStep(Fg))
    /\ \A w \in Workers : WF_vars(WorkerStep(w))
    /\ WF_vars(PageStep)
    /\ WF_vars(AwaitStep)
    /\ \A p \in Procs : WF_vars(Expire(p))

SpecLive == InitLive /\ [][NextLive]_vars /\ Fairness

\* ------------------------------------- specification: concurrent checks
\* One ingestion thread, whose events arrive one at a time and numbered in
\* sequence, a foreground check and background checks that run at the same
\* time on the shared store.
ConcMaxAdds   == 2
ConcMaxAsync  == 1
ConcMaxPolls  == 1
ConcDatas     == {Body(Obj42), Body(Obj99)}
ConcPatterns  == {Dict(Obj42)}

\* The test thread makes one foreground check, soft and with consume=True.
InitConc ==
    InitState /\ budget = Budget(ConcMaxAdds, 1, ConcMaxAsync, 0, ConcMaxPolls)

NextConc ==
    \/ \E b \in Numbered(Len(events) + 1, ConcDatas, 1) : AddEventsEnter("a1", b) /\ UNCHANGED ext_vars
    \/ AddEventsExists("a1") /\ UNCHANGED ext_vars
    \/ AddEventsAppend("a1") /\ UNCHANGED ext_vars
    \/ AddEventsExit("a1") /\ UNCHANGED ext_vars
    \/ \E e \in ConcPatterns : CheckHasEvent(e, TRUE, TRUE) /\ UNCHANGED ext_vars
    \/ \E e \in ConcPatterns, consume \in BOOLEAN : CheckHasEventAsync(e, consume) /\ UNCHANGED ext_vars
    \/ \E w \in Workers : TargetCall(w) /\ UNCHANGED ext_vars
    \/ \E p \in Procs : HistoryScan(p) /\ UNCHANGED ext_vars
    \/ \E p \in Procs : HistoryMark(p) /\ UNCHANGED ext_vars
    \/ \E p \in Procs : PollFetch(p) /\ UNCHANGED ext_vars
    \/ \E p \in Procs : PollScan(p) /\ UNCHANGED ext_vars
    \/ \E p \in Procs : PollMark(p) /\ UNCHANGED ext_vars
    \/ \E p \in Procs : Timeout(p) /\ UNCHANGED ext_vars

SpecConc == InitConc /\ [][NextConc]_vars

\* --------------------------- specification: background checks and their await
\* The test thread starts background checks and awaits them; one event may
\* arrive at any time.
AsyncMaxAdds   == 1
AsyncMaxAsync  == 3
AsyncMaxAwaits == 2
AsyncMaxPolls  == 1
AsyncBatches   == {<<Event(1, Body(Obj42))>>}
AsyncPatterns  == {Dict(Obj42), Unserializable}

InitAsync ==
    InitState /\ budget = Budget(AsyncMaxAdds, 0, AsyncMaxAsync, AsyncMaxAwaits, AsyncMaxPolls)

NextAsync ==
    \/ \E b \in AsyncBatches : AddEventsEnter("a1", b) /\ UNCHANGED ext_vars
    \/ AddEventsExists("a1") /\ UNCHANGED ext_vars
    \/ AddEventsAppend("a1") /\ UNCHANGED ext_vars
    \/ AddEventsExit("a1") /\ UNCHANGED ext_vars
    \/ \E e \in AsyncPatterns : CheckHasEventAsync(e, TRUE) /\ UNCHANGED ext_vars
    \/ \E w \in Workers : TargetCall(w) /\ UNCHANGED ext_vars
    \/ \E w \in Workers : TargetAppend(w) /\ UNCHANGED ext_vars
    \/ \E w \in Workers : HistoryScan(w) /\ UNCHANGED ext_vars
    \/ \E w \in Workers : HistoryMark(w) /\ UNCHANGED ext_vars
    \/ \E w \in Workers : PollFetch(w) /\ UNCHANGED ext_vars
    \/ \E w \in Workers : PollScan(w) /\ UNCHANGED ext_vars
    \/ \E w \in Workers : PollMark(w) /\ UNCHANGED ext_vars
    \/ \E w \in Workers : Timeout(w) /\ UNCHANGED ext_vars
    \/ AwaitCall /\ UNCHANGED ext_vars
    \/ AwaitJoin /\ UNCHANGED ext_vars
    \/ AwaitFinish /\ UNCHANGED ext_vars

SpecAsync == InitAsync /\ [][NextAsync]_vars

\* ------------------------------- specification: the JSON matching functions
\* One call of match_json_element, find_key_value_in_tree or
\* contains_json_data on arguments drawn from the sets below.
MatchMaxLen == 2     \* elements of a generated array

KeyA == <<"a">>
KeyB == <<"b">>

\* Primitive actual values and string patterns.
MatchPrimitives ==
    {JStr(<<>>), JStr(<<"a">>), JStr(<<"a", "b">>), JStr(<<"b", "a">>),
     JStr(<<"1">>), JStr(<<"T", "r", "u", "e">>), JStr(<<"N", "o", "n", "e">>),
     JStr(<<"*">>), JStr(<<"~", "a">>),
     JNum(0), JNum(1), JNum(12), JNum(0 - 1), JBool(TRUE), JBool(FALSE), JNull}

MatchStringPatterns ==
    {JStr(<<"*">>), JStr(<<>>), JStr(<<"~">>), JStr(<<"~", "a">>),
     JStr(<<"~", "a", "b">>), JStr(<<"a">>), JStr(<<"a", "b">>), JStr(<<"1">>),
     JStr(<<"1", "2">>), JStr(<<"-", "1">>), JStr(<<"0">>),
     JStr(<<"T", "r", "u", "e">>), JStr(<<"t", "r", "u", "e">>),
     JStr(<<"N", "o", "n", "e">>), JStr(<<"F", "a", "l", "s", "e">>)}

\* Strings that hold a JSON-encoded scalar, and the scalars as patterns.
MatchEncodedScalars ==
    {JStr(<<Quote, "a", "b", "c", Quote>>), JStr(<<"1">>),
     JStr(<<"t", "r", "u", "e">>), JStr(<<"n", "u", "l", "l">>)}

MatchScalarPatterns ==
    {JStr(<<"a", "b", "c">>), JNum(1), JBool(TRUE), JNull}

\* Generated values: leaves, arrays of up to MatchMaxLen leaves, objects
\* with the keys a and b and leaf values, and one more level of nesting.
MatchLeaves == {JNum(1), JNum(2), JStr(<<"*">>)}

ArraysOf(S, n) == {JArr(s) : s \in SeqsUpTo(S, n)}

SmallObjectsOf(S) ==
    {JObj(<<>>)} \cup {JObj(<< <<k, x>> >>) : k \in {KeyA, KeyB}, x \in S}

ObjectsOf(S) ==
    SmallObjectsOf(S)
    \cup {JObj(<< <<KeyA, x>>, <<KeyB, y>> >>) : x \in S, y \in S}

MatchFlat == ArraysOf(MatchLeaves, MatchMaxLen) \cup ObjectsOf(MatchLeaves)

MatchNested ==
    {JObj(<< <<KeyA, x>> >>) : x \in ArraysOf(MatchLeaves, 1) \cup SmallObjectsOf(MatchLeaves)}
    \cup {JArr(<<x>>) : x \in ArraysOf(MatchLeaves, 1) \cup SmallObjectsOf(MatchLeaves)}

MatchComposites == MatchFlat \cup MatchNested

\* Texts that json.loads rejects.
MatchBadTexts ==
    {<<"o", "k">>, <<"{", Quote, "a", Quote, ":">>, <<"[", "1", ",", "]">>, <<>>}

\* A call: fn is the function, actual / key / pattern its arguments as the
\* function receives them (a str argument as a JStr); plain is the argument
\* before it was encoded (the value whose JSON text actual holds, or the
\* body of the EventData).
MatchCall(actual, pattern, plain, encoding) ==
    [fn |-> "match", state |-> "call", actual |-> actual, key |-> <<>>,
     pattern |-> pattern, plain |-> plain, encoding |-> encoding,
     result |-> FALSE]

FindCall(element, key, search_value) ==
    [fn |-> "find", state |-> "call", actual |-> element, key |-> key,
     pattern |-> search_value, plain |-> element, encoding |-> "none",
     result |-> FALSE]

ContainsCall(event_json, search_json, body) ==
    [fn |-> "contains", state |-> "call", actual |-> JStr(event_json),
     key |-> <<>>, pattern |-> JStr(search_json), plain |-> JStr(body),
     encoding |-> "event",
     result |-> FALSE]

MatchCalls ==
    {MatchCall(a, p, a, "none") : a \in MatchPrimitives, p \in MatchStringPatterns}
    \cup {MatchCall(a, p, a, "none") : a \in MatchEncodedScalars \cup MatchPrimitives,
                                       p \in MatchScalarPatterns}
    \cup {MatchCall(a, p, a, "none") : a \in MatchComposites \cup MatchLeaves,
                                       p \in MatchComposites \cup MatchLeaves}
    \cup {MatchCall(JStr(json_dumps(v)), p, v, "text") :
             v \in MatchComposites \cup MatchLeaves, p \in MatchComposites}
    \cup {MatchCall(JObj(<< <<KeyA, JStr(json_dumps(v))>> >>), JObj(<< <<KeyA, p>> >>),
                    JObj(<< <<KeyA, v>> >>), "field") :
             v \in MatchFlat \cup MatchLeaves, p \in MatchFlat}
    \cup {MatchCall(JStr(t), p, JStr(t), "none") : t \in MatchBadTexts, p \in MatchComposites}

FindCalls ==
    {FindCall(e, k, v) : e \in MatchComposites \cup MatchLeaves, k \in {KeyA, KeyB},
                         v \in MatchLeaves \cup ArraysOf(MatchLeaves, 1)}

\* Bodies of events: a base object, wrapped as the nested data node, beside
\* a data node that does not match, inside a list, or as a string.
SkuIs(x) == <<Sku, JStr(x)>>

ContainsBases ==
    {JObj(<< SkuIs(<<"4", "2">>) >>),
     JObj(<< SkuIs(<<"4", "2">>), <<KeyId, JNum(1)>> >>),
     JObj(<< SkuIs(<<"9", "9">>), <<KeyId, JNum(1)>> >>),
     JObj(<<>>)}

ContainsBodyValues ==
    ContainsBases
    \cup {JObj(<< <<KeyData, b>> >>) : b \in ContainsBases}
    \cup {JObj(<< <<KeyEvent, JObj(<< <<KeyData, b>> >>)>> >>) : b \in ContainsBases}
    \cup {JObj(<< <<KeyData, JObj(<< SkuIs(<<"9", "9">>) >>)>>, <<KeyA, b>> >>) :
             b \in ContainsBases}
    \cup {JObj(<< <<KeyEvent, JObj(<< <<KeyData, JObj(<< <<KeyId, JNum(1)>> >>)>> >>)>>,
                  <<KeyData, b>> >>) : b \in ContainsBases}
    \cup {JObj(<< <<KeyData, JNull>>, <<KeyA, JArr(<<JObj(<< SkuIs(<<"9", "9">>) >>), b>>)>> >>) :
             b \in ContainsBases}
    \cup {JArr(<<b>>) : b \in ContainsBases}
    \cup {JObj(<< <<KeyData, JStr(json_dumps(b))>> >>) : b \in ContainsBases}
    \cup {JNum(1), JStr(<<"4", "2">>), JNull}

ContainsBodies == {json_dumps(v) : v \in ContainsBodyValues} \cup MatchBadTexts

ContainsPatternValues ==
    {JObj(<< SkuIs(<<"4", "2">>) >>),
     JObj(<< SkuIs(<<"4", "2">>), <<KeyId, JNum(1)>> >>),
     JObj(<< SkuIs(<<"*">>) >>),
     JObj(<< SkuIs(<<"~", "4">>), <<KeyId, JStr(<<"1">>)>> >>),
     JObj(<< <<KeyData, JObj(<< SkuIs(<<"9", "9">>) >>)>> >>),
     JObj(<<>>), JArr(<<JNum(1)>>), JNum(1)}

ContainsPatterns == {json_dumps(v) : v \in ContainsPatternValues} \cup MatchBadTexts

\* The JSON text of an EventData without a body field, and of a list.
ContainsOddEvents ==
    {Dump(JObj(<< <<<<"u", "r", "i">>, JStr(<<"/">>)>> >>), <<>>),
     Dump(JArr(<<JStr(<<"{", "}">>)>>), <<>>),
     Dump(JObj(<< <<<<"b", "o", "d", "y">>, JObj(<<>>)>> >>), <<>>)}

ContainsCalls ==
    {ContainsCall(model_dump_json([has_data |-> TRUE, body |-> b]), p, b) :
        b \in ContainsBodies, p \in ContainsPatterns}
    \cup {[ContainsCall(e, p, <<>>) EXCEPT !.encoding = "odd"] :
             e \in ContainsOddEvents \cup MatchBadTexts, p \in ContainsPatterns}

InitMatch ==
    /\ InitCore
    /\ budget = Budget(0, 0, 0, 0, 0)
    /\ m \in MatchCalls \cup FindCalls \cup ContainsCalls

MatchJsonElement ==
    /\ m.fn = "match" /\ m.state = "call"
    /\ m' = [m EXCEPT !.state = "done",
                      !.result = match_json_element(m.actual, m.pattern)]

FindKeyValueInTree ==
    /\ m.fn = "find" /\ m.state = "call"
    /\ m' = [m EXCEPT !.state = "done",
                      !.result = find_key_value_in_tree(m.actual, m.key, m.pattern)]

ContainsJsonData ==
    /\ m.fn = "contains" /\ m.state = "call"
    /\ m' = [m EXCEPT !.state = "done",
                      !.result = contains_json_data(m.actual.v, m.pattern.v)]

scenario_vars == <<store_vars, adder, frame, verifier_vars, test_vars, budget,
                   wins, expired, diag, pe, memo,
                   aux_vars>>

NextMatch ==
    \/ MatchJsonElement /\ UNCHANGED scenario_vars
    \/ FindKeyValueInTree /\ UNCHANGED scenario_vars
    \/ ContainsJsonData /\ UNCHANGED scenario_vars

SpecMatch == InitMatch /\ [][NextMatch]_vars


\* ------------------------------------------ specification: one ingest call
\* One call of ingest with up to IngestMaxPayloads payloads: texts that do
\* not parse or parse to a list, decoded lists, envelopes of up to
\* IngestMaxItems items, and single records.
IngestMaxItems    == 2
IngestMaxPayloads == 2

Price == <<"p", "r", "i", "c", "e">>
Obj42Priced == JObj(<< <<Sku, JStr(<<"4", "2">>)>>, <<Price, JNum(9)>> >>)

IngestItems ==
    {JObj(<< <<KeyEventNum, JNum(1)>>, <<KeyData, Obj42>> >>),
     JObj(<< <<KeyNum, JStr(<<"2">>)>>, <<KeyData, Obj99>> >>),
     JObj(<< <<KeyData, Obj42>> >>),
     JObj(<< <<KeyName, JStr(<<"n">>)>> >>),
     JObj(<< <<KeyEventNum, JStr(<<"x">>)>>, <<KeyData, Obj42>> >>),
     JNum(5)}

Envelope(items) == JObj(<< <<KeyEvents, JArr(items)>> >>)

IngestRecords ==
    {JObj(<<>>),
     JObj(<< <<KeyId, JNum(1)>>,
             <<KeyData, JObj(<< <<KeyBody, JStr(<<"o", "k">>)>> >>)>> >>),
     JObj(<< <<KeyNum, JNum(2)>>,
             <<KeyData, JObj(<< <<KeyBody, JNum(5)>> >>)>> >>),
     JObj(<< <<KeyEventNum, JArr(<<JNum(1)>>)>> >>)}

IngestPayloads ==
    {Raw(<<"{">>), Raw(<<"[", "1", "]">>), Decoded(JArr(<<>>)),
     Raw(json_dumps(Envelope(<<JObj(<< <<KeyEventNum, JNum(1)>>,
                                       <<KeyData, Obj42>> >>)>>)))}
    \cup {Decoded(Envelope(items)) : items \in SeqsUpTo(IngestItems, IngestMaxItems)}
    \cup {Decoded(r) : r \in IngestRecords}

IngestCalls == SeqsUpTo(IngestPayloads, IngestMaxPayloads)

InitIngest == InitState /\ budget = Budget(1, 0, 0, 0, 0)

NextIngest ==
    \/ \E payloads \in IngestCalls : Ingest("a1", payloads)
    \/ AddEventsExists("a1") /\ UNCHANGED ext_vars
    \/ AddEventsAppend("a1") /\ UNCHANGED ext_vars
    \/ IngestReturn("a1")

SpecIngest == InitIngest /\ [][NextIngest]_vars


\* ------------------------------ specification: ingest, then foreground checks
\* One call of ingest with one envelope of up to FeedMaxItems items, and up
\* to FeedMaxChecks foreground checks of the test thread.
FeedMaxItems  == 2
FeedMaxChecks == 2
FeedMaxPolls  == 1

FeedItems ==
    {JObj(<< <<KeyName, JStr(<<"P">>)>>, <<KeyEventNum, JNum(1)>>,
             <<KeyData, Obj42Priced>> >>),
     JObj(<< <<KeyEventNum, JNum(2)>>, <<KeyData, Obj99>> >>)}

FeedCalls ==
    {<<Decoded(Envelope(items))>> : items \in SeqsUpTo(FeedItems, FeedMaxItems) \ {<<>>}}
    \cup {<<Raw(json_dumps(Envelope(<<JObj(<< <<KeyEventNum, JNum(1)>>,
                                              <<KeyData, Obj42Priced>> >>)>>)))>>}

FeedPatterns ==
    {Dict(Obj42), Dict(Obj99), Dict(Obj42Priced),
     Dict(JObj(<< <<Sku, JStr(<<"4", "2">>)>>, <<Price, JNum(8)>> >>))}

InitFeed == InitState /\ budget = Budget(1, FeedMaxChecks, 0, 0, FeedMaxPolls)

NextFeed ==
    \/ \E payloads \in FeedCalls : Ingest("a1", payloads)
    \/ AddEventsExists("a1") /\ UNCHANGED ext_vars
    \/ AddEventsAppend("a1") /\ UNCHANGED ext_vars
    \/ IngestReturn("a1")
    \/ \E e \in FeedPatterns, soft \in BOOLEAN, consume \in BOOLEAN :
          CheckHasEvent(e, soft, consume) /\ UNCHANGED ext_vars
    \/ HistoryScan(Fg) /\ UNCHANGED ext_vars
    \/ HistoryMark(Fg) /\ UNCHANGED ext_vars
    \/ PollFetch(Fg) /\ UNCHANGED ext_vars
    \/ PollScan(Fg) /\ UNCHANGED ext_vars
    \/ PollMark(Fg) /\ UNCHANGED ext_vars
    \/ Timeout(Fg) /\ UNCHANGED ext_vars

SpecFeed == InitFeed /\ [][NextFeed]_vars


\* --------------------------- specification: page_element_matched_event
\* One call of page_element_matched_event on the test thread, with events
\* arriving before and during it in up to PageMaxAdds calls of add_events.
\* The events match the pattern or not, and a matching one has an item with
\* or without a name.
PageMaxNum    == 2
PageMaxAdds   == 2
PageMaxScroll == 1
PageMaxPolls  == 1

PageBatches ==
    {<<ev>> : ev \in EventsOf(PageMaxNum, {Body(Obj99), ItemsBody(<<Item42>>),
                                          ItemsBody(<<Item42Named>>)})}

\* A dict, its JSON text, a text that is not JSON, and the text of a list.
PagePatterns ==
    {Dict(Obj42), Text(json_dumps(Obj42)), Text(<<"{", "s", "k", "u">>),
     Text(<<"[", "1", "]">>)}

InitPage == InitState /\ budget = Budget(PageMaxAdds, 0, 0, 0, PageMaxPolls)

NextPage ==
    \/ \E b \in PageBatches : AddEventsEnter("a1", b) /\ UNCHANGED ext_vars
    \/ AddEventsExists("a1") /\ UNCHANGED ext_vars
    \/ AddEventsAppend("a1") /\ UNCHANGED ext_vars
    \/ AddEventsExit("a1") /\ UNCHANGED ext_vars
    \/ \E e \in PagePatterns, n \in (0 - 1)..PageMaxScroll,
          last \in BOOLEAN, consume \in BOOLEAN :
          PageElementMatchedEvent(e, n, last, consume)
    \/ PageRound
    \/ PageCollect
    \/ PageResolve
    \/ HistoryScan(Fg) /\ UNCHANGED ext_vars
    \/ PollFetch(Fg) /\ UNCHANGED ext_vars
    \/ PollScan(Fg) /\ UNCHANGED ext_vars
    \/ Timeout(Fg) /\ UNCHANGED ext_vars

SpecPage == InitPage /\ [][NextPage]_vars


\* -------------------------------------------- specification: SoftAssert
\* One `with SoftAssert()` block with up to SoftMaxChecks checks, which ends
\* normally or by an exception of its body.
SoftMaxChecks == 3

SoftMessages == {Msg("check", <<"a">>), Msg("check", <<"b">>)}
SoftObjects  ==
    {JObj(<< <<KeyA, JObj(<< <<KeyB, JNum(1)>> >>)>> >>), JObj(<< <<KeyA, JNum(1)>> >>)}
SoftKeyPaths == {<<"a">>, <<"a", ".", "b">>, <<>>}
SoftPatterns == {json_dumps(Obj42), json_dumps(Obj99)}

InitSoft == InitState /\ budget = Budget(0, SoftMaxChecks, 0, 0, 0)

NextSoft ==
    \/ SoftEnter
    \/ \E condition \in BOOLEAN, message \in SoftMessages :
          SoftCheck(condition, message)
    \/ \E obj \in SoftObjects, key_path \in SoftKeyPaths :
          SoftAssertHasKey(obj, key_path)
    \/ \E expected_json \in SoftPatterns :
          SoftAssertContains(model_dump_json(Body(Obj42)), expected_json)
    \/ \E actual \in {JNum(1), JBool(TRUE)}, expected \in {JNum(1), JStr(<<"1">>)},
          type_check \in BOOLEAN :
          SoftAssertEquals(actual, expected, type_check)
    \/ \E exc \in {"none", "RuntimeError"} : SoftExit(exc)

SpecSoft == InitSoft /\ [][NextSoft]_vars


\* ------------------------ specification: the store and readers of its log
\* Two ingestion threads, marks, and up to SnapMaxReads calls of
\* get_events() whose results are kept; no clear().
SnapMaxNum   == 3
SnapMaxAdds  == 2
SnapMaxReads == 2
SnapBatches  == BatchesOf(EventsOf(SnapMaxNum, {NoData}), 2)

InitSnap == InitState /\ budget = Budget(SnapMaxAdds, SnapMaxReads, 0, 0, 0)

NextSnap ==
    \/ \E a \in Adders, b \in SnapBatches : AddEventsEnter(a, b) /\ UNCHANGED ext_vars
    \/ \E a \in Adders : AddEventsExists(a) /\ UNCHANGED ext_vars
    \/ \E a \in Adders : AddEventsAppend(a) /\ UNCHANGED ext_vars
    \/ \E a \in Adders : AddEventsExit(a) /\ UNCHANGED ext_vars
    \/ \E n \in 1..SnapMaxNum : MarkEventAsMatched(n) /\ UNCHANGED ext_vars
    \/ GetEvents

SpecSnap == InitSnap /\ [][NextSnap]_vars


\* ------------------------------------------ specification: the event server
\* Up to ServerMaxPosts requests to /event on two handler threads, requests
\* to another path or with a Content-Length that is not an int, and a store
\* that the test may have filled before by add_events.
ServerMaxPosts == 2
ServerMaxSeed  == 2

ServerRequests ==
    {Request(path, body, length_ok) :
        path \in {"/event", "/m/other"},
        body \in {json_dumps(Obj42), <<"{", " ", "n", "o">>},
        length_ok \in BOOLEAN}

ServerSeeds == BatchesOf(EventsOf(ServerMaxSeed, {NoData}), 2)

InitServer == InitState /\ budget = Budget(ServerMaxPosts, 0, 0, 0, 0)

NextServer ==
    \/ \E b \in ServerSeeds :
          /\ events = <<>> /\ \A h \in Adders : srv[h].pc = "idle"
          /\ AddEventsEnter("a1", b) /\ UNCHANGED ext_vars
    \/ \E a \in Adders : AddEventsExists(a) /\ UNCHANGED ext_vars
    \/ \E a \in Adders : AddEventsAppend(a) /\ UNCHANGED ext_vars
    \/ srv["a1"].pc = "idle" /\ AddEventsExit("a1") /\ UNCHANGED ext_vars
    \/ \E h \in Adders, req \in ServerRequests : DoPost(h, req)
    \/ \E h \in Adders : PostLast(h)
    \/ \E h \in Adders : PostAdd(h)
    \/ \E h \in Adders : PostReply(h)

SpecServer == InitServer /\ [][NextServer]_vars


\* ------------------------------------ specification: the Appium manager
\* One session: ensure_started_and_monitored, the monitor thread, one
\* shutdown, and a world in which the servers come and go.
InitAppium == InitState /\ budget = Budget(0, 0, 0, 0, 0)

NextAppium ==
    \/ \E up \in BOOLEAN : EnsureStartedAndMonitored(up)
    \/ \E up \in BOOLEAN : MonitorIteration(up)
    \/ MonitorExit
    \/ ShutdownBegin
    \/ ShutdownEnd
    \/ ExternalUp
    \/ ExternalDown
    \/ ProcServes
    \/ ProcExits

SpecAppium == InitAppium /\ [][NextAppium]_vars


\* ------------------- specification: clear() while a check is in flight
\* The test thread starts background checks that consume, and clears the
\* store between its other calls; one ingestion thread delivers events.
ResetMaxNum   == 2
ResetMaxAdds  == 2
ResetMaxAsync == 1
ResetMaxPolls == 1
ResetBatches  == BatchesOf(EventsOf(ResetMaxNum, {Body(Obj42)}), 1)

InitReset == InitState /\ budget = Budget(ResetMaxAdds, 0, ResetMaxAsync, 0, ResetMaxPolls)

NextReset ==
    \/ \E b \in ResetBatches : AddEventsEnter("a1", b) /\ UNCHANGED ext_vars
    \/ AddEventsExists("a1") /\ UNCHANGED ext_vars
    \/ AddEventsAppend("a1") /\ UNCHANGED ext_vars
    \/ AddEventsExit("a1") /\ UNCHANGED ext_vars
    \/ CheckHasEventAsync(Dict(Obj42), TRUE) /\ UNCHANGED ext_vars
    \/ \E w \in Workers : TargetCall(w) /\ UNCHANGED ext_vars
    \/ \E w \in Workers : TargetAppend(w) /\ UNCHANGED ext_vars
    \/ \E w \in Workers : HistoryScan(w) /\ UNCHANGED ext_vars
    \/ \E w \in Workers : HistoryMark(w) /\ UNCHANGED ext_vars
    \/ \E w \in Workers : PollFetch(w) /\ UNCHANGED ext_vars
    \/ \E w \in Workers : PollScan(w) /\ UNCHANGED ext_vars
    \/ \E w \in Workers : PollMark(w) /\ UNCHANGED ext_vars
    \/ \E w \in Workers : Timeout(w) /\ UNCHANGED ext_vars
    \/ TestThreadReady /\ Clear /\ UNCHANGED ext_vars

SpecReset == InitReset /\ [][NextReset]_vars

\* ----------------------------------- specification: ingest, call after call
\* Up to ReingestMaxCalls calls of ingest on one thread, each with one
\* envelope of up to ReingestMaxItems items numbered 1 or 2.
ReingestMaxCalls == 2
ReingestMaxItems == 2

ReingestItems ==
    {JObj(<< <<KeyEventNum, JNum(1)>>, <<KeyData, Obj42>> >>),
     JObj(<< <<KeyNum, JStr(<<"2">>)>>, <<KeyData, Obj99>> >>)}

ReingestCalls ==
    {<<Decoded(Envelope(items))>> : items \in SeqsUpTo(ReingestItems, ReingestMaxItems)}

InitReingest == InitState /\ budget = Budget(ReingestMaxCalls, 0, 0, 0, 0)

NextReingest ==
    \/ \E payloads \in ReingestCalls :
          (ing.by = Free \/ ing.returned) /\ Ingest("a1", payloads)
    \/ AddEventsExists("a1") /\ UNCHANGED ext_vars
    \/ AddEventsAppend("a1") /\ UNCHANGED ext_vars
    \/ IngestReturn("a1")

SpecReingest == InitReingest /\ [][NextReingest]_vars

\* ------------------------------ specification: checks with text patterns
\* One ingestion thread and foreground checks whose pattern is a string:
\* the text of an object, of an array, of a number, and a text that is not
\* JSON.
TextMaxBatch  == 2
TextMaxAdds   == 1
TextMaxChecks == 2
TextMaxPolls  == 1
TextBatches   == Numbered(1, {NoData, RawBody, Body(Obj42), Body(Obj99)}, TextMaxBatch)
TextPatterns  ==
    {Text(json_dumps(Obj42)), Text(<<"{", "s", "k", "u">>),
     Text(<<"[", "1", "]">>), Text(<<"5">>)}

InitText == InitState /\ budget = Budget(TextMaxAdds, TextMaxChecks, 0, 0, TextMaxPolls)

NextText ==
    \/ \E b \in TextBatches : AddEventsEnter("a1", b) /\ UNCHANGED ext_vars
    \/ AddEventsExists("a1") /\ UNCHANGED ext_vars
    \/ AddEventsAppend("a1") /\ UNCHANGED ext_vars
    \/ AddEventsExit("a1") /\ UNCHANGED ext_vars
    \/ \E e \in TextPatterns, consume \in BOOLEAN :
          CheckHasEvent(e, TRUE, consume) /\ UNCHANGED ext_vars
    \/ HistoryScan(Fg) /\ UNCHANGED ext_vars
    \/ HistoryMark(Fg) /\ UNCHANGED ext_vars
    \/ PollFetch(Fg) /\ UNCHANGED ext_vars
    \/ PollScan(Fg) /\ UNCHANGED ext_vars
    \/ PollMark(Fg) /\ UNCHANGED ext_vars
    \/ Timeout(Fg) /\ UNCHANGED ext_vars

SpecText == InitText /\ [][NextText]_vars

\* ------------------------------- specification: the polling cursor of a check
\* One ingestion thread whose events arrive one at a time, numbered in
\* sequence; a foreground check that waits for {"sku": "42"} over several
\* polling rounds, and a background check that consumes a {"sku": "99"}
\* event meanwhile. clear() is not called.
PollMaxAdds  == 3
PollMaxAsync == 1
PollMaxPolls == 3
PollDatas    == {Body(Obj42), Body(Obj99)}

InitPoll == InitState /\ budget = Budget(PollMaxAdds, 1, PollMaxAsync, 0, PollMaxPolls)

NextPoll ==
    \/ \E b \in Numbered(Len(events) + 1, PollDatas, 1) : AddEventsEnter("a1", b) /\ UNCHANGED ext_vars
    \/ AddEventsExists("a1") /\ UNCHANGED ext_vars
    \/ AddEventsAppend("a1") /\ UNCHANGED ext_vars
    \/ AddEventsExit("a1") /\ UNCHANGED ext_vars
    \/ \E consume \in BOOLEAN : CheckHasEvent(Dict(Obj42), TRUE, consume) /\ UNCHANGED ext_vars
    \/ CheckHasEventAsync(Dict(Obj99), TRUE) /\ UNCHANGED ext_vars
    \/ \E w \in Workers : TargetCall(w) /\ UNCHANGED ext_vars
    \/ \E w \in Workers : TargetAppend(w) /\ UNCHANGED ext_vars
    \/ \E p \in Procs : HistoryScan(p) /\ UNCHANGED ext_vars
    \/ \E p \in Procs : HistoryMark(p) /\ UNCHANGED ext_vars
    \/ \E p \in Procs : PollFetch(p) /\ UNCHANGED ext_vars
    \/ \E p \in Procs : PollScan(p) /\ UNCHANGED ext_vars
    \/ \E p \in Procs : PollMark(p) /\ UNCHANGED ext_vars
    \/ \E p \in Procs : Timeout(p) /\ UNCHANGED ext_vars

SpecPoll == InitPoll /\ [][NextPoll]_vars

\* ================================================================== claims
IsReturned(f) == f.pc \in {"returned", "finished"}

MatchingEvents(event_data) ==
    {k \in 1..Len(events) : EventMatches(events[k], event_data)}

\* The test thread's previous check consumed the store's only event matching
\* the pattern, nothing has arrived since that check was called, and the
\* next check with the same pattern has ended.
SecondCheckEnded ==
    /\ frame[Fg].pc = "returned"
    /\ prev.pc = "returned"
    /\ prev.result = "true"
    /\ prev.consume
    /\ prev.event_data = frame[Fg].event_data
    /\ Len(events) = prev.log_len
    /\ Cardinality(MatchingEvents(prev.event_data)) = 1

\* C1: sequential consume-once.  After check_has_event(pattern, consume=True)
\* returned True on the single stored event matching the pattern, and with no
\* arrivals, a second check with consume=True does not succeed (False when
\* soft, AssertionError otherwise) and a second check with consume=False
\* returns True.
C1_SequentialConsumeOnce ==
    SecondCheckEnded =>
        IF frame[Fg].consume
        THEN frame[Fg].result = (IF frame[Fg].soft THEN "false" ELSE "assert")
        ELSE frame[Fg].result = "true"

C1_Witness ==
    /\ SecondCheckEnded
    /\ frame[Fg].consume
    /\ frame[Fg].result = "false"

\* C2: consume-once under concurrency.  No stored event is the match of two
\* different consume=True checks: the event numbers of the consume=True
\* successes are pairwise distinct (each number has at most one success).
C2_NoEventMatchedTwice ==
    \A n \in DOMAIN wins : wins[n] <= 1

RECURSIVE IsSubseq(_, _)
IsSubseq(s, t) ==
    IF s = <<>> THEN TRUE
    ELSE IF t = <<>> THEN FALSE
    ELSE IF Head(s) = Head(t) THEN IsSubseq(Tail(s), Tail(t))
    ELSE IsSubseq(s, Tail(t))

IsPrefix(s, t) == Len(s) <= Len(t) /\ SubSeq(t, 1, Len(s)) = s

NoDuplicateNumbers ==
    \A i, j \in 1..Len(events) : i /= j => events[i].event_num /= events[j].event_num

\* C3: under any interleaving of concurrent add_events calls the log never
\* holds two events with one event_num; an event whose number is in the log
\* is dropped and the log only grows at its end, so the first event accepted
\* for a number is the one retained; the events one call has had accepted
\* appear in the log in the order of the call's list.
C3_StoreDedup ==
    /\ [] NoDuplicateNumbers
    /\ [] (\A a \in Adders : /\ IsSubseq(adder[a].accepted, events)
                             /\ IsSubseq(adder[a].accepted, adder[a].new_events))
    /\ [][ /\ IsPrefix(events, events')
           /\ \A a \in Adders :
                (adder[a].pc = "tested" /\ adder'[a].pc = "loop"
                   /\ event_exists(adder[a].new_events[adder[a].i].event_num))
                => events' = events ]_vars

\* Every add_events call of the scenario has been made; the one still in its
\* loop has had one of its two events dropped as a duplicate and the other
\* accepted.
C3_Witness ==
    /\ budget.adds = 0
    /\ Len(events) >= 2
    /\ \E a \in Adders :
         /\ adder[a].pc = "loop"
         /\ adder[a].i > Len(adder[a].new_events)
         /\ Len(adder[a].accepted) = 1
         /\ Len(adder[a].new_events) = 2


\* The event a check is about to mark, or has returned True on.
Selected(p) ==
    IF frame[p].pc = "history_mark" THEN frame[p].existing_events[frame[p].pos]
    ELSE IF frame[p].pc = "scan_mark" THEN frame[p].new_events[frame[p].pos]
    ELSE frame[p].found

Selecting(p) ==
    /\ frame[p].consume
    /\ \/ frame[p].pc \in {"history_mark", "scan_mark"}
       \/ IsReturned(frame[p]) /\ frame[p].result = "true"

PositionOf(ev) == CHOOSE k \in 1..Len(events) : events[k] = ev

\* C4: arrival-order precedence.  The event a consume=True check selects is
\* in the log, matches the pattern, and every event that arrived before it
\* and matches the pattern is consumed: the check never takes a later
\* matching event while an earlier matching one is still unconsumed.
C4_ArrivalOrderPrecedence ==
    \A p \in Procs :
        Selecting(p) =>
            /\ \E k \in 1..Len(events) : events[k] = Selected(p)
            /\ EventMatches(Selected(p), frame[p].event_data)
            /\ \A k \in 1..Len(events) :
                 (k < PositionOf(Selected(p))
                    /\ EventMatches(events[k], frame[p].event_data))
                 => events[k].event_num \in matched_events

\* A consume=True check returned True on the second of two matching events,
\* the first one having been consumed before.
C4_Witness ==
    \E p \in Procs :
        /\ IsReturned(frame[p])
        /\ frame[p].consume
        /\ frame[p].result = "true"
        /\ Len(events) >= 2
        /\ frame[p].found = events[2]
        /\ EventMatches(events[1], frame[p].event_data)
        /\ frame[p].event_data.kind = "dict"

\* C5: a consume=False check is indifferent to consumption in the polling
\* phase too: every event at or after the check's cursor that matches the
\* pattern is in the batch the poll hands to the scan, consumed or not.
C5_ConsumeFalseSeesConsumed ==
    [][ \A p \in Procs :
          (frame[p].pc = "poll" /\ frame'[p].pc = "scan" /\ ~frame[p].consume)
          => \A k \in (frame[p].start_index + 1)..Len(events) :
                EventMatches(events[k], frame[p].event_data)
                => \E j \in 1..Len(frame'[p].new_events) :
                      frame'[p].new_events[j] = events[k] ]_vars

\* C6: a check that times out returns False when soft and raises
\* AssertionError otherwise, and the timeout leaves the log and the consumed
\* set as they were; a check returns True only on an event of the log that
\* matches the pattern (any event when the pattern is absent) and, when
\* consume is set, that this check was the one to consume.
C6_TimeoutAndTrueResults ==
    /\ [] (\A p \in Procs :
             (IsReturned(frame[p]) /\ frame[p].result \in {"false", "assert"})
             => /\ frame[p].result = (IF frame[p].soft THEN "false" ELSE "assert")
                /\ frame[p].found = NoEvent)
    /\ [] (\A p \in Procs :
             (IsReturned(frame[p]) /\ frame[p].result = "true")
             => /\ \E k \in 1..Len(events) : events[k] = frame[p].found
                /\ EventMatches(frame[p].found, frame[p].event_data)
                /\ frame[p].consume
                     => /\ frame[p].found.event_num \in matched_events
                        /\ frame[p].found.event_num \in DOMAIN wins
                        /\ wins[frame[p].found.event_num] = 1)
    /\ [][ \A p \in Procs :
             (frame[p].pc = "poll" /\ frame'[p].pc = "returned")
             => /\ events' = events
                /\ matched_events' = matched_events
                /\ frame'[p].result \in {"false", "assert"} ]_vars

\* A check with soft=False polled a log holding only events that do not
\* match, and raised.
C6_Witness ==
    /\ frame[Fg].pc = "returned"
    /\ frame[Fg].result = "assert"
    /\ frame[Fg].event_data.kind = "dict"
    /\ Len(events) >= 1
    /\ frame[Fg].log_len >= 1


\* The step in which await_all_event_checks returns or raises.
AwaitEnds == t_pc = "join" /\ t_pc' = "idle"

\* The positions in _threads of the background checks that did not return True.
FailedChecks == {k \in 1..Len(threads) : frame[threads[k]].result /= "true"}

\* C7: await_all_event_checks raises one aggregated AssertionError iff at
\* least one background check started since the previous await did not
\* return True, the error lists as many indices as there are such checks,
\* and with no failure (or no background check) it returns normally.
C7_AggregatedFailure ==
    [][ AwaitEnds =>
          /\ await_outcome'.state = (IF FailedChecks /= {} THEN "raised" ELSE "returned")
          /\ Len(await_outcome'.failures) = Cardinality(FailedChecks)
          /\ \A i, j \in 1..Len(await_outcome'.failures) :
                i /= j => await_outcome'.failures[i] /= await_outcome'.failures[j] ]_vars

\* Three background checks, one of which failed: the await raised with
\* exactly one index.
C7_Witness ==
    /\ await_outcome.state = "raised"
    /\ await_outcome.awaited = 3
    /\ Len(await_outcome.failures) = 1

\* C8: when await_all_event_checks ends, by returning or by raising, the
\* results list and the thread list are empty, and the results list stays
\* empty as long as no background check is started; an await that finds no
\* thread returns without raising.
C8_AwaitLeavesListsEmpty ==
    /\ [] (threads = <<>> => thread_results = <<>>)
    /\ [][ AwaitEnds =>
             /\ threads' = <<>>
             /\ thread_results' = <<>>
             /\ threads = <<>> => await_outcome'.state = "returned" ]_vars

\* An await raised, and the await right after it aggregated nothing and
\* returned.
C8_Witness ==
    /\ await_outcome.state = "returned"
    /\ await_outcome.prev_state = "raised"
    /\ await_outcome.awaited = 0
    /\ t_pc = "idle"

\* C9: await_all_event_checks ends only when every background check started
\* before it has ended and recorded its result; check_has_event_async
\* returns to the test thread while the check it started has yet to run.
C9_AwaitBlocksAsyncDoesNot ==
    /\ [][ AwaitEnds =>
             /\ \A k \in 1..Len(threads) : frame[threads[k]].pc = "finished"
             /\ Len(thread_results) = Len(threads) ]_vars
    /\ [][ Len(threads') = Len(threads) + 1 =>
             /\ t_pc' = "idle"
             /\ frame'[threads'[Len(threads')]].pc = "started"
             /\ thread_results' = thread_results ]_vars

\* An await ended after having waited for two background checks, one of
\* which ran to its timeout.
C9_Witness ==
    /\ t_pc = "idle"
    /\ await_outcome.awaited = 2
    /\ await_outcome.state = "raised"

FinishedChecks == {k \in 1..Len(threads) : frame[threads[k]].pc = "finished"}

\* C10: every background check appends exactly one boolean to the results
\* list, True when its check returned True and False when it timed out or
\* raised; a worker's check never ends in AssertionError (it is soft); the
\* results recorded are as many as the checks that have ended.
C10_OneResultPerCheck ==
    /\ Len(thread_results) = Cardinality(FinishedChecks)
    /\ Cardinality({i \in 1..Len(thread_results) : thread_results[i]})
         = Cardinality({k \in FinishedChecks : frame[threads[k]].result = "true"})
    /\ \A k \in 1..Len(threads) :
         /\ frame[threads[k]].pc /= "idle"
         /\ IsReturned(frame[threads[k]])
              => frame[threads[k]].result \in {"true", "false", "error"}
    /\ \A w \in Workers :
         frame[w].pc /= "idle" => \E k \in 1..Len(threads) : threads[k] = w

\* Three background checks have ended: one on a match, one on its timeout,
\* one on an exception.
C10_Witness ==
    /\ Len(threads) = 3
    /\ Len(thread_results) = 3
    /\ \E a, b, c \in FinishedChecks :
         /\ frame[threads[a]].result = "true"
         /\ frame[threads[b]].result = "false"
         /\ frame[threads[c]].result = "error"

\* A check_has_event call of thread p is running.
Checking(p) == frame[p].pc \in {"history", "history_mark", "poll", "scan", "scan_mark"}

\* C11: every check terminates: a running check_has_event call eventually
\* returns or raises, and does so once its deadline has passed;
\* page_element_matched_event ends, after at most scroll_count + 1 rounds;
\* and await_all_event_checks completes.
C11_EveryCheckTerminates ==
    /\ \A p \in Procs : Checking(p) ~> (frame[p].pc = "returned")
    /\ [](pe.rounds <= pe.scroll_count + 1)
    /\ (pe.pc \notin {"idle", "done"}) ~> (pe.pc = "done")
    /\ (t_pc = "join") ~> (t_pc = "idle" /\ await_outcome.state /= "none")

\* page_element_matched_event has ended with LookupError after its two
\* rounds, each of which waited for its check to time out, and the await has
\* completed after the background check timed out.
C11_Witness ==
    /\ pe.pc = "done"
    /\ pe.scroll_count = 1
    /\ pe.rounds = 2
    /\ pe.result = "lookup_error"
    /\ await_outcome.state = "raised"

\* C12: when a check times out, the diagnostic payload it offers is that of
\* the most recent non-matching event with a payload that the check scanned,
\* in the history scan or while polling: if there was such an event, the
\* payload carried is that event's and is not absent.
C12_TimeoutCarriesLastSeen ==
    (/\ frame[Fg].pc = "returned"
     /\ frame[Fg].result \in {"false", "assert"}
     /\ diag[Fg].seen.has) =>
        /\ diag[Fg].actual.has
        /\ diag[Fg].actual = diag[Fg].seen

\* C13: an event_num is never reused within one store's lifetime: once the
\* store has accepted an event with number n it accepts no other event with
\* number n, whatever add_events, mark_event_as_matched and clear calls are
\* made.
C13_EventNumNeverReused ==
    \A i, j \in 1..Len(accepted_nums) :
        accepted_nums[i] = accepted_nums[j] => i = j

\* ------------------------------------------------ the matching functions
MatchDone    == m.state = "done" /\ m.fn = "match"
FindDone     == m.state = "done" /\ m.fn = "find"
ContainsDone == m.state = "done" /\ m.fn = "contains"

IsComposite(x) == x.t \in {"obj", "arr"}

\* Every dict node of a parsed value, the value itself included.
RECURSIVE MappingNodes(_), MappingNodesOfAll(_)
MappingNodes(x) ==
    IF x.t = "obj"
    THEN <<x>> \o MappingNodesOfAll([i \in 1..Len(x.v) |-> x.v[i][2]])
    ELSE IF x.t = "arr" THEN MappingNodesOfAll(x.v)
    ELSE <<>>

MappingNodesOfAll(s) ==
    IF Len(s) = 0 THEN <<>>
    ELSE MappingNodes(Head(s)) \o MappingNodesOfAll(Tail(s))

\* Some dict node of tree has key with a value that matches search_value.
SomeNodeHas(tree, key, search_value) ==
    \E n \in 1..Len(MappingNodes(tree)) :
        LET node == MappingNodes(tree)[n]
        IN  \E j \in 1..Len(node.v) :
                /\ node.v[j][1] = key
                /\ match_json_element(node.v[j][2], search_value)

\* C14: contains_json_data(event, pattern) is true iff the body and the
\* pattern both parse as JSON and every top-level pair (k, v) of the pattern
\* object has some dict node anywhere in the parsed body with key k and a
\* value that match_json_element accepts against v.  The pairs may be found
\* in different branches, an occurrence of k that does not match does not
\* end the search, and the nested data node tried first changes nothing.
C14_ContainsIsDeepSubset ==
    (ContainsDone /\ m.encoding = "event") =>
        LET body    == json_loads(m.plain.v)
            pattern == json_loads(m.pattern.v)
            pairs   == SearchItems(pattern.val)
        IN  m.result <=>
               /\ body.ok
               /\ pattern.ok
               /\ \A i \in 1..Len(pairs) :
                     SomeNodeHas(body.val, pairs[i][1], pairs[i][2])

\* The body has a data node without the sku, the sku is in another branch
\* after an occurrence that does not match, the id is elsewhere, and the
\* call returned True.
C14_Witness ==
    /\ ContainsDone
    /\ m.plain = JStr(json_dumps(
          JObj(<< <<KeyData, JNull>>,
                  <<KeyA, JArr(<<JObj(<< SkuIs(<<"9", "9">>) >>),
                                 JObj(<< SkuIs(<<"4", "2">>), <<KeyId, JNum(1)>> >>)>>)>> >>)))
    /\ m.pattern = JStr(json_dumps(JObj(<< SkuIs(<<"4", "2">>), <<KeyId, JNum(1)>> >>)))
    /\ m.result

\* The rule of the claim for a primitive a and a string pattern p.
C15_Reference(a, p) ==
    IF p = <<"*">> THEN TRUE
    ELSE IF p = <<>> THEN a.t = "str" /\ Len(a.v) = 0
    ELSE IF p[1] = "~"
         THEN /\ a.t = "str"
              /\ \E i \in 1..(Len(a.v) + 1) :
                    /\ i + Len(p) - 2 <= Len(a.v)
                    /\ \A k \in 2..Len(p) : a.v[i + k - 2] = p[k]
    ELSE PyStr(a) = p

\* C15: for a primitive actual value a and a string pattern p,
\* match_json_element(a, p) is true if p is "*"; if p is "", iff a is the
\* empty string; if p starts with "~", iff a is a string that contains the
\* rest of p; otherwise iff str(a) equals p.
C15_PrimitiveAgainstStringPattern ==
    (MatchDone /\ IsPrimitive(m.actual) /\ m.pattern.t = "str") =>
        (m.result <=> C15_Reference(m.actual, m.pattern.v))

\* The number 12 matched the pattern "12" through its string form.
C15_Witness ==
    /\ MatchDone
    /\ m.actual = JNum(12)
    /\ m.pattern = JStr(<<"1", "2">>)
    /\ m.result

\* C16: when actual is a string, the pattern is a primitive and the direct
\* comparison fails, match_json_element parses actual as JSON and recurses
\* with the parsed value, so that match('"abc"', "abc") and match("1", 1)
\* are true.
C16_EncodedScalarMatches ==
    (/\ MatchDone
     /\ m.actual.t = "str"
     /\ IsPrimitive(m.pattern)
     /\ ~MatchPrimitive(m.actual, m.pattern)
     /\ json_loads(m.actual.v).ok) =>
        (m.result <=> match_json_element(json_loads(m.actual.v).val, m.pattern))

\* C17: string-encoded JSON is matched structurally: for a JSON value v and
\* an object or array pattern p, match_json_element(serialize(v), p) equals
\* match_json_element(v, p), at the top level and when the string is a field
\* value inside an object; a string that does not parse as JSON never
\* matches an object or array pattern.
C17_EncodedJsonMatchesStructurally ==
    /\ (MatchDone /\ m.encoding \in {"text", "field"}) =>
          (m.result <=> match_json_element(m.plain, m.pattern))
    /\ (/\ MatchDone
        /\ m.actual.t = "str"
        /\ IsComposite(m.pattern)
        /\ ~json_loads(m.actual.v).ok) => ~m.result

\* The text of {"a": 1} held in a field matched the pattern {"a": {"a": 1}}.
C17_Witness ==
    /\ MatchDone
    /\ m.encoding = "field"
    /\ m.plain = JObj(<< <<KeyA, JObj(<< <<KeyA, JNum(1)>> >>)>> >>)
    /\ m.actual = JObj(<< <<KeyA, JStr(json_dumps(JObj(<< <<KeyA, JNum(1)>> >>)))>> >>)
    /\ m.result

\* The dict d without key k, and with only the keys of dict p.
Without(d, k)  == JObj(SelectSeq(d.v, LAMBDA kv : kv[1] /= k))
OnlyKeysOf(d, p) == JObj(SelectSeq(d.v, LAMBDA kv : HasKey(p, kv[1])))

\* C18: for objects a and b, match_json_element(a, b) is true iff every key
\* of b is present in a with a value that matches b's value; extra keys of a
\* do not affect the result, a without a key that b requires does not match,
\* and the empty object pattern matches every object.
C18_ObjectSubset ==
    (MatchDone /\ m.actual.t = "obj" /\ m.pattern.t = "obj") =>
        /\ m.result <=>
              \A i \in 1..Len(m.pattern.v) :
                 \E j \in 1..Len(m.actual.v) :
                    /\ m.actual.v[j][1] = m.pattern.v[i][1]
                    /\ match_json_element(m.actual.v[j][2], m.pattern.v[i][2])
        /\ m.result <=> match_json_element(OnlyKeysOf(m.actual, m.pattern), m.pattern)
        /\ \A i \in 1..Len(m.pattern.v) :
              ~match_json_element(Without(m.actual, m.pattern.v[i][1]), m.pattern)
        /\ m.pattern = JObj(<<>>) => m.result

\* An object with the keys a and b matched a pattern that names only b.
C18_Witness ==
    /\ MatchDone
    /\ m.actual = JObj(<< <<KeyA, JNum(1)>>, <<KeyB, JNum(2)>> >>)
    /\ m.pattern = JObj(<< <<KeyB, JNum(2)>> >>)
    /\ m.result

\* C19: for arrays a and b, match_json_element(a, b) is true iff every
\* element of b matches at least one element of a, whatever the order and
\* without counting: one element of a may serve several elements of b.
C19_ArrayEachFound ==
    (MatchDone /\ m.actual.t = "arr" /\ m.pattern.t = "arr") =>
        /\ m.result <=>
              \A i \in 1..Len(m.pattern.v) :
                 \E j \in 1..Len(m.actual.v) :
                    match_json_element(m.actual.v[j], m.pattern.v[i])
        /\ m.result <=> match_json_element(JArr(Reversed(m.actual.v)), m.pattern)
        /\ m.result <=> match_json_element(m.actual, JArr(m.pattern.v \o m.pattern.v))

\* [2, 1] matched [1, 1]: the element 1 served both pattern elements, out of
\* position.
C19_Witness ==
    /\ MatchDone
    /\ m.actual = JArr(<<JNum(2), JNum(1)>>)
    /\ m.pattern = JArr(<<JNum(1), JNum(1)>>)
    /\ m.result

\* C20: the three functions are total: on every combination of values they
\* return a boolean, and unparseable text, a missing body field and
\* mismatched types give false.
C20_MatcherTotal ==
    /\ m.state = "done" => m.result \in BOOLEAN
    /\ (ContainsDone /\ m.encoding = "odd") => ~m.result
    /\ (/\ ContainsDone
        /\ m.encoding = "event"
        /\ ~json_loads(m.plain.v).ok \/ ~json_loads(m.pattern.v).ok) => ~m.result
    /\ (/\ MatchDone
        /\ m.actual.t = "str"
        /\ IsComposite(m.pattern)
        /\ ~json_loads(m.actual.v).ok) => ~m.result
    /\ (/\ MatchDone
        /\ IsComposite(m.actual)
        /\ m.actual.t /= m.pattern.t) => ~m.result
    /\ (/\ MatchDone
        /\ m.actual.t \in {"num", "bool", "null"}
        /\ IsComposite(m.pattern)) => ~m.result
    /\ (FindDone /\ IsPrimitive(m.actual)) => ~m.result

\* contains_json_data returned False for a body that parses and a pattern
\* text that json.loads rejects.
C20_Witness ==
    /\ ContainsDone
    /\ m.encoding = "event"
    /\ json_loads(m.plain.v).ok
    /\ m.pattern = JStr(<<"{", Quote, "a", Quote, ":">>)
    /\ ~m.result

\* ---------------------------------------------------------------- C21
\* A payload is malformed when its text does not parse, when it is not an
\* object, when it is an envelope with an item whose event number int()
\* rejects, or when it is a single record that does not normalize.
IsEnvelope(val) == val.t = "obj" /\ GetOrNone(val, KeyEvents).t = "arr"

Malformed(raw) ==
    LET data == Loaded(raw)
    IN  \/ ~data.ok
        \/ data.val.t /= "obj"
        \/ /\ IsEnvelope(data.val)
           /\ \E i \in 1..Len(Get(data.val, KeyEvents).v) :
                 LET item == Get(data.val, KeyEvents).v[i]
                 IN  /\ item.t = "obj"
                     /\ ~PyInt(OrChain(item, <<KeyEventNum, KeyNum>>, JNum(0))).ok
        \/ /\ data.val.t = "obj" /\ ~IsEnvelope(data.val)
           /\ ParseEventDict(data.val).raised

WellFormedOf(payloads) == SelectSeq(payloads, LAMBDA raw : ~Malformed(raw))

\* C21: when ingest has returned, what it handed to the store and what the
\* store holds are the events of the well-formed payloads of the call
\* alone: a malformed payload has contributed no event, and the well-formed
\* payloads before and after it have contributed theirs.
C21_MalformedPayloadSkipped ==
    ing.returned =>
        /\ ing.unique = UniqueEvents(Normalized(WellFormedOf(ing.payloads)))
        /\ events = ing.unique

\* ---------------------------------------------------------------- C22
IngestCalled == ing.by /= Free

\* The dict items of an envelope, and the items that carry no number.
DictItemsOf(val) == SelectSeq(Get(val, KeyEvents).v, LAMBDA item : item.t = "obj")

Unnumbered(item) == ~HasKey(item, KeyEventNum) /\ ~HasKey(item, KeyNum)

\* The positions of list t that hold the first event of their number, and
\* the i-th of them.
FirstPositions(t) ==
    {k \in 1..Len(t) : \A j \in 1..(k - 1) : t[j].event_num /= t[k].event_num}

NthOf(K, i) == CHOOSE k \in K : Cardinality({j \in K : j < k}) = i - 1

\* C22: the events an ingest call hands to the store have pairwise distinct
\* numbers and are, in order, the first occurrences of their numbers among
\* the events the call normalized; an envelope item without event_num and
\* num becomes an event numbered 0, so at most one event numbered 0 is handed
\* over, and it is the first one.
C22_FirstOccurrencePerNumber ==
    IngestCalled =>
        LET all == Normalized(ing.payloads)
            K   == FirstPositions(all)
        IN  /\ \A i, j \in 1..Len(ing.unique) :
                  i /= j => ing.unique[i].event_num /= ing.unique[j].event_num
            /\ Len(ing.unique) = Cardinality(K)
            /\ \A i \in 1..Len(ing.unique) : ing.unique[i] = all[NthOf(K, i)]
            /\ \A p \in 1..Len(ing.payloads) :
                  LET data == Loaded(ing.payloads[p])
                  IN  data.ok /\ IsEnvelope(data.val) /\ ~Malformed(ing.payloads[p]) =>
                         LET items == DictItemsOf(data.val)
                             evs   == PayloadEvents(ing.payloads[p]).events
                         IN  /\ Len(evs) = Len(items)
                             /\ \A k \in 1..Len(items) :
                                   Unnumbered(items[k]) => evs[k].event_num = 0
            /\ Cardinality({i \in 1..Len(ing.unique) : ing.unique[i].event_num = 0}) <= 1
            /\ ing.returned => events = ing.unique

\* An envelope with two items without a number and different data was
\* ingested: the store holds the event of the first one only.
C22_Witness ==
    /\ ing.returned
    /\ Len(ing.payloads) = 1
    /\ ~ing.payloads[1].is_str
    /\ IsEnvelope(ing.payloads[1].val)
    /\ LET items == Get(ing.payloads[1].val, KeyEvents).v
       IN  /\ Len(items) = 2
           /\ items[1].t = "obj" /\ items[2].t = "obj"
           /\ Unnumbered(items[1]) /\ Unnumbered(items[2])
           /\ ItemData(items[1]) /= ItemData(items[2])
           /\ events = <<NamedEvent(0, ItemName(items[1], <<KeyName>>),
                                    EnvelopeBody(items[1]))>>

\* ---------------------------------------------------------------- C23
\* The JSON of the body ingest gives the event of an envelope item.
Wrapped(item) == JObj(<< <<KeyEvent, JObj(<< <<KeyData, ItemData(item)>> >>)>> >>)

\* The dict items of the envelopes of the ingest call.
RECURSIVE IngestedItemsOf(_)
IngestedItemsOf(payloads) ==
    IF payloads = <<>> THEN <<>>
    ELSE (IF Loaded(Head(payloads)).ok /\ IsEnvelope(Loaded(Head(payloads)).val)
          THEN DictItemsOf(Loaded(Head(payloads)).val) ELSE <<>>)
         \o IngestedItemsOf(Tail(payloads))

\* Pair (k, v) of a pattern is found in the event of item; every pair is.
PairFound(item, pair) == SomeNodeHas(Wrapped(item), pair[1], pair[2])

AllPairsFound(item, pattern) ==
    \A i \in 1..Len(pattern.obj.v) : PairFound(item, pattern.obj.v[i])

\* The stored events, out of list evs, that come from an item of the call in
\* which every pair of the pattern is found, those that the call skips as
\* consumed left out.
Candidates(evs, pattern, consume, consumed) ==
    {k \in 1..Len(evs) :
        /\ ~(consume /\ evs[k].event_num \in consumed)
        /\ \E i \in 1..Len(IngestedItemsOf(ing.payloads)) :
              LET item == IngestedItemsOf(ing.payloads)[i]
              IN  /\ evs[k].data = EnvelopeBody(item)
                  /\ AllPairsFound(item, pattern)}

\* C23: a check of an object pattern never starts to wait when the store
\* holds, at the call, an ingested event in whose data every pair of the
\* pattern is found: it returns from its scan of the history, and a return
\* from that scan is True; a check with soft=True whose pattern has a pair
\* found in no stored event returns False.
C23_IngestThenCheck ==
    [][/\ (/\ frame'[Fg].pc = "poll"
           /\ frame[Fg].pc \in {"idle", "returned", "history"})
          => Candidates(SubSeq(events, 1, frame'[Fg].log_len),
                        frame'[Fg].event_data, frame'[Fg].consume,
                        matched_events) = {}
       /\ (/\ frame'[Fg].pc = "returned"
           /\ frame[Fg].pc \in {"history", "history_mark"})
          => frame'[Fg].result = "true"
       /\ (/\ frame'[Fg].pc = "returned"
           /\ frame[Fg].pc /= "returned"
           /\ frame'[Fg].soft
           /\ \E i \in 1..Len(frame'[Fg].event_data.obj.v) :
                 \A j \in 1..Len(IngestedItemsOf(ing.payloads)) :
                    ~PairFound(IngestedItemsOf(ing.payloads)[j],
                               frame'[Fg].event_data.obj.v[i]))
          => frame'[Fg].result = "false"]_vars

\* The envelope with the item {"sku": "42", "price": 9} was ingested; the
\* check for {"sku": "42"} returned True without a polling round, and the
\* soft check for {"sku": "99"} after it returned False.
C23_Witness ==
    /\ ing.returned
    /\ Len(events) = 1
    /\ events[1].data = Body(JObj(<< <<KeyEvent, JObj(<< <<KeyData, Obj42Priced>> >>)>> >>))
    /\ prev.pc = "returned" /\ prev.event_data = Dict(Obj42)
    /\ prev.result = "true" /\ prev.log_len = 1
    /\ frame[Fg].pc = "returned" /\ frame[Fg].event_data = Dict(Obj99)
    /\ frame[Fg].soft /\ frame[Fg].result = "false"
    /\ budget.polls = 0

\* ---------------------------------------------------------------- C24
\* scroll_count + 1 rounds, a negative scroll_count counting as 0.
RoundsAllowed == (IF pe.scroll_count < 0 THEN 0 ELSE pe.scroll_count) + 1

\* C24: page_element_matched_event runs at most scroll_count + 1 rounds
\* (negative counts as 0).  The scroll callback has run once after every
\* failed round that had a retry left and at no other time: while a round
\* runs and after a round that succeeded there is one scroll per earlier
\* round; between two rounds there is one per finished round and a round is
\* left; when the last round fails the call raises LookupError without
\* another scroll, and it never ends in any other error.
C24_ScrollBetweenRoundsOnly ==
    /\ pe.rounds <= RoundsAllowed
    /\ pe.pc \in {"waiting", "chosen"} => pe.scrolls = pe.rounds - 1
    /\ pe.pc = "round" => pe.scrolls = pe.rounds /\ pe.rounds < RoundsAllowed
    /\ (pe.pc = "done" /\ pe.result = "element") => pe.scrolls = pe.rounds - 1
    /\ (pe.pc = "done" /\ pe.result = "lookup_error") =>
          pe.rounds = RoundsAllowed /\ pe.scrolls = pe.rounds - 1
    /\ pe.pc = "done" => pe.result \in {"element", "lookup_error", "value_error"}

\* Both rounds of a call with scroll_count = 1 failed: one scroll, then
\* LookupError.
C24_Witness ==
    /\ pe.pc = "done" /\ pe.result = "lookup_error"
    /\ pe.scroll_count = 1 /\ pe.rounds = 2 /\ pe.scrolls = 1

\* ---------------------------------------------------------------- C25
\* The event numbers the consumed set has gained since the call began.
ConsumedByCall == matched_events \ pe.matched_before

\* C25: when page_element_matched_event has returned a PageElement, with
\* consume=True the consumed set holds the number of the event the element
\* was derived from and has gained no other number during the call; with
\* consume=False it has gained none.
C25_ConsumesSelectedOnly ==
    (pe.pc = "done" /\ pe.result = "element") =>
        IF pe.consume
        THEN /\ pe.matched_event.event_num \in matched_events
             /\ ConsumedByCall \subseteq {pe.matched_event.event_num}
        ELSE ConsumedByCall = {}

\* ---------------------------------------------------------------- C26
\* A pattern str that is not valid JSON, or is valid JSON but not an object.
MalformedPattern(event_data) ==
    /\ event_data.kind = "text"
    /\ LET parsed == json_loads(event_data.obj.v)
       IN  ~parsed.ok \/ parsed.val.t /= "obj"

\* C26: the step in which page_element_matched_event is called with a
\* malformed pattern str ends the call in ValueError, whatever scroll_count
\* is: no round has begun, no check waits, the scroll callback has not run,
\* and the log and the consumed set are as they were; a call with any other
\* pattern does not end in ValueError.
C26_MalformedPatternRaisesAtOnce ==
    [][(pe.pc = "idle" /\ pe'.pc /= "idle") =>
          IF MalformedPattern(pe'.event_data)
          THEN /\ pe'.pc = "done" /\ pe'.result = "value_error"
               /\ pe'.rounds = 0 /\ pe'.scrolls = 0
               /\ frame' = frame
               /\ events' = events /\ matched_events' = matched_events
          ELSE pe'.pc = "round"]_vars

\* The text of a list was passed with scroll_count = 1 and consume=True on
\* a store that held an event: ValueError, and nothing is consumed.
C26_Witness ==
    /\ pe.pc = "done" /\ pe.result = "value_error"
    /\ pe.event_data = Text(<<"[", "1", "]">>)
    /\ pe.scroll_count = 1 /\ pe.consume
    /\ pe.log_len = 1 /\ pe.rounds = 0 /\ pe.scrolls = 0
    /\ matched_events = {}

\* ---------------------------------------------------------------- C27
\* The value a key path leads to in obj, or no value.
RECURSIVE Leads(_, _)
Leads(obj, parts) ==
    \/ parts = <<>>
    \/ /\ obj.t = "obj"
       /\ \E i \in 1..Len(obj.v) :
             obj.v[i][1] = Head(parts) /\ Leads(obj.v[i][2], Tail(parts))

\* The check of a call fails.
FailedCheck(call) ==
    CASE call.fn = "check"    -> ~call.a.v
      [] call.fn = "has_key"  -> ~Leads(call.a, KeyPathParts(call.b.v))
      [] call.fn = "contains" -> ~contains_json_data(call.a.v, call.b.v)
      [] call.fn = "equals"   -> \/ call.flag /\ call.a.t /= call.b.t
                                 \/ ~PyEq(call.a, call.b)

FailedCalls == SelectSeq(sa.calls, FailedCheck)

\* C27: a SoftAssert holds one failure per failed check, in call order, and
\* no check ends the block.  When the block ends without an exception of
\* its body, one combined AssertionError that lists all recorded failures
\* is raised if and only if there is a failure; when it ends by an
\* exception of its body, that exception propagates.
C27_SoftAssertCollects ==
    /\ Len(sa.failures) = Len(FailedCalls)
    /\ \A i \in 1..Len(sa.failures) :
          /\ sa.failures[i].kind \in
                (IF FailedCalls[i].fn = "equals"
                 THEN {"type_mismatch", "values_differ"}
                 ELSE {FailedCalls[i].message.kind})
          /\ sa.failures[i].text = FailedCalls[i].message.text
    /\ sa.pc = "open" => sa.exit = "none"
    /\ (sa.pc = "closed" /\ sa.exc = "none") =>
          /\ sa.exit = (IF sa.failures /= <<>> THEN "combined" ELSE "returned")
          /\ sa.exit = "combined" =>
                sa.total = Len(sa.failures) /\ sa.listed = sa.failures
    /\ (sa.pc = "closed" /\ sa.exc /= "none") => sa.exit = "propagated"

\* Three checks, the first and the third failed with different messages,
\* and the block ended normally: the combined error lists both in order.
C27_Witness ==
    /\ sa.pc = "closed" /\ sa.exit = "combined" /\ sa.total = 2
    /\ Len(sa.calls) = 3
    /\ FailedCheck(sa.calls[1]) /\ ~FailedCheck(sa.calls[2]) /\ FailedCheck(sa.calls[3])
    /\ sa.calls[1].message /= sa.calls[3].message
    /\ sa.listed = <<sa.calls[1].message, sa.calls[3].message>>

\* ---------------------------------------------------------------- C28
\* C28: without clear(), every list returned by get_events() is a prefix of
\* every list returned later and of the log, and reads now as it did when it
\* was returned; no step removes or reorders entries of the log, and a step
\* that marks an event leaves the log as it is.
C28_AppendOnlyIsolatedSnapshots ==
    /\ [](/\ \A i, j \in 1..Len(snaps) :
                i < j => IsPrefix(Observed(snaps[i].list), Observed(snaps[j].list))
          /\ \A i \in 1..Len(snaps) :
                /\ Observed(snaps[i].list) = snaps[i].seen
                /\ IsPrefix(snaps[i].seen, events))
    /\ [][/\ IsPrefix(events, events')
          /\ matched_events' /= matched_events => events' = events]_vars

\* A list with one event was returned, then that event was marked and two
\* more arrived, and the list returned after that has all three.
C28_Witness ==
    /\ Len(snaps) = 2
    /\ Len(Observed(snaps[1].list)) = 1
    /\ Len(Observed(snaps[2].list)) = 3
    /\ matched_events = {snaps[1].seen[1].event_num}
    /\ Len(events) = 3

\* ---------------------------------------------------------------- C29
\* The number after that of the event before position k of the log.
NumberAfter(log, k) == (IF k = 1 THEN 0 ELSE log[k - 1].event_num) + 1

\* C29: in the step in which a handler answers 200, its add_events call has
\* appended exactly one event, which is named BATCH, carries the body of
\* the request, valid JSON or not, and is numbered one more than the event
\* before it in the log (1 at the head of the log); the step in which a
\* handler answers 404 is the whole handling of a request to another path
\* and leaves the store as it is, and no request to /event is answered 404.
C29_PostAppendsOneBatchEvent ==
    [][\A h \in Adders :
          /\ (srv'[h].status = 200 /\ srv[h].status /= 200) =>
                /\ srv[h].path = "/event"
                /\ Len(adder[h].accepted) = 1
                /\ adder[h].accepted[1].name = Batch
                /\ adder[h].accepted[1].data = [has_data |-> TRUE, body |-> srv[h].body]
                /\ \E k \in 1..Len(events') :
                      /\ events'[k] = adder[h].accepted[1]
                      /\ events'[k].event_num = NumberAfter(events', k)
          /\ (srv'[h].status = 404 /\ srv[h].pc \in {"idle", "done"}
              /\ srv'[h] /= srv[h]) =>
                /\ srv'[h].path /= "/event"
                /\ events' = events /\ matched_events' = matched_events
          /\ (srv'[h].pc = "done" /\ srv'[h].path = "/event") =>
                srv'[h].status /= 404]_vars

\* ---------------------------------------------------------------- C30
\* C30: once ensure_started_and_monitored has found a server already
\* healthy at the URL, no step taken while that server has kept answering
\* health checks spawns an Appium process.
C30_MonitorOnlyNeverSpawns ==
    [][(am.found /\ am.kept /\ am'.kept) => am'.spawned = am.spawned]_vars

\* ---------------------------------------------------------------- C31
\* C31: once shutdown() has returned, and ensure_started_and_monitored
\* has not been called again, no step starts an Appium process.
C31_NoRestartAfterShutdown ==
    [][(am.stopped /\ ~am.shutting_down) => am'.spawned = am.spawned]_vars

\* ---------------------------------------------------------------- C34
\* C34: in every reachable state, with clear() running at any point of a
\* check, every number in the consumed set is the number of an event in
\* the log.
C34_ConsumedAreStored ==
    \A n \in matched_events : \E k \in 1..Len(events) : events[k].event_num = n

\* ---------------------------------------------------------------- C35
\* C35: when every background check started since the last await has
\* recorded its result, the i-th entry of the results list is the outcome
\* of the i-th check started, so the indices of the aggregated failure
\* name checks in start order.
C35_ResultsInStartOrder ==
    Len(thread_results) = Len(threads) =>
        \A i \in 1..Len(threads) :
            thread_results[i] = TargetResult(frame[threads[i]].result)

\* ---------------------------------------------------------------- C36
\* Handler h has handled its request concurrently with another one: the
\* other handler is between reading the last event and its answer, or it
\* has answered 200 for a request whose event was not yet in the log when
\* h read the last event.
HandledConcurrently(h) ==
    \E g \in Adders \ {h} :
        \/ srv[g].pc \in {"add", "adding"}
        \/ srv[g].status = 200 /\ srv[h].log_len <= srv[g].log_len

\* C36: a handler that answers 200 for a request handled concurrently with
\* another has stored its event: the add_events call of the request
\* appended one event, and no other event of the log has its number.
C36_NoPostLostUnderConcurrency ==
    [][\A h \in Adders :
          (srv'[h].status = 200 /\ srv[h].pc = "adding" /\ HandledConcurrently(h))
          => /\ Len(adder[h].accepted) = 1
             /\ Cardinality({k \in 1..Len(events') :
                    events'[k].event_num = adder[h].accepted[1].event_num}) = 1]_vars

\* ---------------------------------------------------------------- C37
\* C37: a page_element_matched_event call that has ended in LookupError
\* has passed no event number to mark_event_as_matched, so the consumed
\* set holds what it held when the call began.
C37_LookupFailureMarksNothing ==
    (pe.pc = "done" /\ pe.result = "lookup_error") =>
        /\ pe.marked = {}
        /\ matched_events = pe.matched_before

\* ---------------------------------------------------------------- C38
\* C38: the list an ingest call returns is the list of events its
\* add_events call appended to the log: an event dropped because its
\* number was stored by an earlier call is not returned.
C38_ReturnsWhatWasAccepted ==
    [][(ing.stored /\ ~ing.returned /\ ing'.returned) =>
          ing'.unique = adder[ing.by].accepted]_vars

\* ---------------------------------------------------------------- C39
\* C39: a check_has_event call whose pattern is a string that is not the
\* text of a JSON object (not JSON at all, or the text of an array or of a
\* primitive) never returns True.
C39_NonObjectPatternNeverMatches ==
    \A p \in Procs :
        (IsReturned(frame[p]) /\ frame[p].event_data.kind = "text"
         /\ ~IsJsonObject(frame[p].event_data))
        => frame[p].result /= "true"

\* ---------------------------------------------------------------- C40
\* The pattern is an object with the one pair key k, value "*".
WildcardFieldPattern(pattern, k) ==
    pattern = JObj(<< <<k, JStr(<<"*">>)>> >>)

\* A finished match_json_element call on an object that has key k, with
\* the pattern {k: "*"}.
WildcardFieldCall(k) ==
    /\ m.fn = "match" /\ m.state = "done"
    /\ m.actual.t = "obj" /\ HasKey(m.actual, k)
    /\ WildcardFieldPattern(m.pattern, k)

\* C40 as stated: match_json_element(actual, {k: "*"}) is true for every
\* object actual that has key k, whatever the value under k is.
C40_WildcardAssertsKeyPresence ==
    \A k \in {KeyA, KeyB} : WildcardFieldCall(k) => m.result

\* C40, amended: match_json_element(actual, {k: "*"}) on an object actual
\* that has key k is true exactly when the value under k is a string, a
\* number, a boolean or null; it is false when the value is an object or
\* an array.
C40_WildcardMatchesPrimitiveField ==
    \A k \in {KeyA, KeyB} :
        WildcardFieldCall(k) =>
            (m.result <=> Get(m.actual, k).t \notin {"obj", "arr"})

\* A call on an object with a number under k has returned True.
C40_Witness ==
    \E k \in {KeyA, KeyB} :
        WildcardFieldCall(k) /\ Get(m.actual, k).t = "num" /\ m.result


\* ---------------------------------------------------------------- C33
\* The check of p is in its polling phase.
Polling(p) == frame[p].pc \in {"poll", "scan", "scan_mark"}

\* C33: without clear(), the polling cursor of a running check never exceeds
\* the length of the log, and no event is skipped: every event accepted
\* after the history snapshot of the check that the cursor has passed was
\* returned by one of its polls or is consumed; the events beyond the
\* cursor are those the next poll returns.
C33_NoGapAfterHistory ==
    \A p \in Procs :
        Polling(p) =>
            /\ frame[p].log_len <= frame[p].start_index
            /\ frame[p].start_index <= Len(events)
            /\ \A k \in (frame[p].log_len + 1)..frame[p].start_index :
                  \/ events[k].event_num \in frame[p].polled
                  \/ events[k].event_num \in matched_events
            /\ \A k \in (frame[p].start_index + 1)..Len(events) :
                  \/ events[k].event_num \in matched_events
                  \/ \E i \in 1..Len(get_index_events(frame[p].start_index)) :
                        get_index_events(frame[p].start_index)[i] = events[k]

\* The foreground check has polled twice: the first poll skipped a consumed
\* event and returned the one after it, so the cursor lags behind the log.
C33_Witness ==
    /\ frame[Fg].pc = "poll"
    /\ frame[Fg].log_len = 0
    /\ Len(events) = 3
    /\ frame[Fg].start_index = 2
    /\ events[1].event_num \in matched_events
    /\ frame[Fg].polled = {events[2].event_num, events[3].event_num}


\* ---------------------------------------------------------------- C32
\* The stored events that match the pattern of the check of p and that no
\* check has consumed.
Available(p) ==
    {k \in 1..Len(events) :
        /\ events[k].event_num \notin matched_events
        /\ EventMatches(events[k], frame[p].event_data)}

\* The check of p ends without a match: its while loop finds the deadline
\* passed.
TimesOut(p) ==
    /\ frame[p].pc = "poll" /\ expired[p]
    /\ frame'[p].pc = "returned" /\ frame'[p].result /= "true"

\* C32: a check does not time out when a matching event that no check has
\* consumed was accepted before its deadline passed.
C32_AcceptedInTimeIsFound ==
    [][\A p \in Procs :
          TimesOut(p) => \A k \in Available(p) : k > frame[p].at_deadline]_vars

====
